---- MODULE Spec2Model ----
(***************************************************************************)
(* RTP-to-decoder pipeline of the Android desktop-streaming client:        *)
(* the decode feeder of start_decoder (webrtc/decoder/mod.rs) with its     *)
(* reference-frame gate, and the rate-limited PLI sender                   *)
(* (webrtc/decoder/rtcp_helper.rs).                                        *)
(*                                                                         *)
(* Time is the reading of SystemTime::now() in milliseconds since the      *)
(* UNIX epoch.  A byte is a number 0..255.                                 *)
(***************************************************************************)
EXTENDS Integers, Sequences, FiniteSets, TLC

(* ------------------------------ constants ------------------------------ *)

PLI_INTERVAL == 50

NALU_TYPE_BITMASK == 31

NALU_TYPE_IDR_PIC == 5

NALU_DELIMITER == <<0, 0, 0, 1>>

UNIX_EPOCH == 0

(* -------------------------------- bounds ------------------------------- *)

\* first reading of the wall clock (the process starts long after the epoch)
StartTime == 60

\* the wall clock is not followed beyond StartTime + TimeSpan
TimeSpan == 80

\* capacity in bytes of a decoder input buffer
InputBufCap == 7

\* number of distinct SSRC values tried for the track
NumSsrc == 2

\* number of lifecycle events the platform publishes
MaxEvents == 2

\* number of distinct surfaces the platform hands out
NumSurfaces == 2

\* input and output buffers of the decoder session
NumIn == 2

NumOut == 1

\* capacity of the reorder window
WindowCap == 3

\* number of distinct sequence numbers on the track, and of packets read
NumSeq == 5

MaxArrivals == 4

MaxTime == StartTime + TimeSpan

\* how far the wall clock moves between two observations
TickSteps == {25, 26}

\* NAL header bytes carried by the payloads:
\*   101 = 0x65 IDR slice, 65 = 0x41 non-IDR slice, 117 = 0x75 type 21 (low nibble 5)
HdrBytes == {101, 65, 117}

\* bytes of a unit after its header byte: how many at most, and which
MaxData == 3

DataBytes == {1, 2}

\* start_decoder calls on one singleton
NumCalls == 2

\* NAL units in a payload read for parameters, and read_payload calls
MaxNals == 2

MaxReads == 3

\* the small widths and heights the aspect ratio is computed for
MaxDim == 12

Ssrcs == 1..NumSsrc

(* ---------------------------- data domains ----------------------------- *)

\* One RTP payload as the depacketizer sees it: a complete NAL unit, or a
\* fragment (start / middle / end) of a fragmented unit, or a payload with an
\* unsupported fragmentation type.
Payloads ==
    [kind : {"single", "start"}, hdr : HdrBytes]
        \cup [kind : {"mid", "end", "unsupported"}, hdr : {170}]

ReorderBufferError ==
    {"HeaderParsingError", "TrackRemoteReadError", "PacketTooShort",
     "BufferFull", "TrackRemoteReadTimeout", "UnableToMaintainReorderBuffer"}

VARIABLES
    now,                  \* SystemTime::now()
    track_ssrc,           \* track.ssrc()
    pli,                  \* the feeder's RateLimitedPli
    written,              \* PLI messages written to the peer, oldest first
    has_reference_frame,  \* the gate: TRUE = Streaming, FALSE = AwaitingKeyFrame
    reader,               \* the H264Depacketizer wrapped around input_buffer
    fpc,                  \* position of the feeder task
    ferr,                 \* the error the feeder task returned, "none" if none
    exit,                 \* the shared AtomicBool
    cpc,                  \* position of the coordinator (render pump side)
    firstSinceReset,      \* kind of the first unit queued since the gate was last closed
    gateWasReset,         \* an error arm has closed the gate before
    queueFailed,          \* a queue_input_buffer call has failed before
    ev,                   \* what the last step did
    \* the platform and the peer
    peer_state,           \* peer.connection_state()
    events,               \* the MediaPlayerEvent channel: published, not yet received
    published,            \* number of events published so far
    \* the render pump and the decoder session
    render,               \* the render flag of the pump
    bound_surface,        \* the native window the decoder renders to
    lastSurface,          \* the last surface event the pump has handled
    codec,                \* the buffers of the decoder session
    why,                  \* why the pump left its loop
    pev,                  \* what the last step of the pump did
    result,               \* what start_decoder returned, "none" while it runs
    \* the bootstrap sequencer
    boot,                 \* create_media_engine: its locals and its position
    bev,                  \* what the last step of the sequencer did
    \* the reorder buffer
    rob,                  \* BufferedTrackRemote and the track behind it
    rev,                  \* what the last recv() did
    \* histories
    seen,                 \* number of events the pipeline has received so far
    queued,               \* the access units given to the decoder, oldest first
    dep,                  \* a depacketizer fed with the payloads of one unit
    call                  \* a call followed on its own: its arguments and result

feederVars == <<now, track_ssrc, pli, written, has_reference_frame, reader, fpc, ferr,
                exit, cpc, firstSinceReset, gateWasReset, queueFailed, ev>>

envVars == <<peer_state, events, published>>

pumpVars == <<render, bound_surface, lastSurface, codec, why, pev>>

bootVars == <<boot, bev>>

robVars == <<rob, rev>>

logVars == <<queued, dep, call>>

histVars == <<seen, logVars>>

\* everything the feeder of `Spec` and the limiter leave alone
others == <<envVars, pumpVars, result, bootVars, robVars, histVars>>

vars == <<feederVars, envVars, pumpVars, result, bootVars, robVars, histVars>>

(* ------------------------- Payload depacketizer ------------------------ *)

\* H264Depacketizer::wrap_buffer: a depacketizer at the start of the buffer
wrap_buffer == [buf |-> <<>>, open |-> FALSE, wrapped |-> TRUE]

\* Depacketizer::finish: number of bytes written; the cursor is reset and the
\* depacketizer must be wrapped again before reuse
finish(r) == [n |-> Len(r.buf), reader |-> [buf |-> <<>>, open |-> FALSE, wrapped |-> FALSE]]

\* the bytes of a payload after its header byte (none where the payload is
\* given by its kind and header byte alone)
payload_data(p) == IF "data" \in DOMAIN p THEN p.data ELSE <<>>

fragment_bytes_redelimits(p) == NALU_DELIMITER \o <<p.hdr>> \o payload_data(p)

\* what one payload contributes to the access unit: the payload that opens a
\* unit writes the delimiter and the unit's header byte before its data, a
\* later fragment writes its data only
fragment_bytes(p) ==
    IF p.kind \in {"single", "start"}
    THEN NALU_DELIMITER \o <<p.hdr>> \o payload_data(p)
    ELSE <<p.hdr>> \o payload_data(p)

fits_always(r, bytes) == TRUE

\* the bytes still fit into the wrapped input buffer
fits(r, bytes) == Len(r.buf) + Len(bytes) <= InputBufCap

\* Depacketizer::push
push(r, p) ==
    LET bytes == fragment_bytes(p)
        hard == [res |-> "Error", reader |-> r]
    IN  CASE p.kind = "unsupported" -> hard
          [] ~fits(r, bytes) -> hard
          [] p.kind = "single" ->
                [res |-> "Ok", reader |-> [r EXCEPT !.buf = @ \o bytes]]
          [] p.kind = "start" ->
                IF r.open THEN hard
                ELSE [res |-> "NeedMoreInput",
                      reader |-> [r EXCEPT !.buf = @ \o bytes, !.open = TRUE]]
          [] p.kind = "mid" ->
                IF ~r.open THEN hard
                ELSE [res |-> "NeedMoreInput",
                      reader |-> [r EXCEPT !.buf = @ \o bytes]]
          [] p.kind = "end" ->
                IF ~r.open THEN hard
                ELSE [res |-> "Ok",
                      reader |-> [r EXCEPT !.buf = @ \o bytes, !.open = FALSE]]

(* --------------------------- RateLimitedPli ---------------------------- *)

\* RateLimitedPli::new
RateLimitedPli_new(media_ssrc, pli_interval) ==
    [sender_ssrc |-> 0, media_ssrc |-> media_ssrc,
     last_pli_time |-> UNIX_EPOCH, pli_interval |-> pli_interval]

\* now.duration_since(earlier): Err when `earlier` is later than `now`
duration_since(t, earlier) ==
    IF t >= earlier THEN [ok |-> TRUE, d |-> t - earlier] ELSE [ok |-> FALSE, d |-> 0]

\* a limiter that waits two intervals
pli_due_two_intervals(p, t) ==
    LET e == duration_since(t, p.last_pli_time)
    IN  e.ok /\ e.d > 2 * p.pli_interval

\* a limiter that lets a message through at exactly the interval
pli_due_at_interval(p, t) ==
    LET e == duration_since(t, p.last_pli_time)
    IN  e.ok /\ e.d >= p.pli_interval

\* The test of RateLimitedPli::send that lets a message through
pli_due(p, t) ==
    LET e == duration_since(t, p.last_pli_time)
    IN  e.ok /\ e.d > p.pli_interval

\* a limiter that never records the time of a write
RateLimitedPli_send_forgets(p, t, writeOk) ==
    IF pli_due(p, t)
    THEN IF writeOk
         THEN [pli |-> p, attempts |-> 1,
               msgs |-> <<[at |-> t, sender_ssrc |-> p.sender_ssrc,
                           media_ssrc |-> p.media_ssrc]>>,
               ok |-> TRUE]
         ELSE [pli |-> p, attempts |-> 1, msgs |-> <<>>, ok |-> FALSE]
    ELSE [pli |-> p, attempts |-> 0, msgs |-> <<>>, ok |-> TRUE]

\* a limiter that records the time before it writes
RateLimitedPli_send_records_first(p, t, writeOk) ==
    IF pli_due(p, t)
    THEN IF writeOk
         THEN [pli |-> [p EXCEPT !.last_pli_time = t], attempts |-> 1,
               msgs |-> <<[at |-> t, sender_ssrc |-> p.sender_ssrc,
                           media_ssrc |-> p.media_ssrc]>>,
               ok |-> TRUE]
         ELSE [pli |-> [p EXCEPT !.last_pli_time = t], attempts |-> 1,
               msgs |-> <<>>, ok |-> FALSE]
    ELSE [pli |-> p, attempts |-> 0, msgs |-> <<>>, ok |-> TRUE]

\* RateLimitedPli::send at time t; writeOk is the outcome of peer.write_rtcp
\* should it be called.  Yields the limiter afterwards, the number of
\* write_rtcp calls, the messages that reached the peer and the Result.
RateLimitedPli_send(p, t, writeOk) ==
    IF pli_due(p, t)
    THEN IF writeOk
         THEN [pli |-> [p EXCEPT !.last_pli_time = t], attempts |-> 1,
               msgs |-> <<[at |-> t, sender_ssrc |-> p.sender_ssrc,
                           media_ssrc |-> p.media_ssrc]>>,
               ok |-> TRUE]
         ELSE [pli |-> p, attempts |-> 1, msgs |-> <<>>, ok |-> FALSE]
    ELSE [pli |-> p, attempts |-> 0, msgs |-> <<>>, ok |-> TRUE]

(* ------------------------- what a step has done ------------------------ *)

\* The record of the last step, for the properties: nothing done
Quiet(arm) ==
    [arm |-> arm,
     recv |-> "none",        \* result of reorder_buffer.recv(): "Ok" or the error
     pushed |-> "none",      \* result of reader.push(payload)
     nalu |-> <<>>,          \* the access unit finished in this step
     hadRef |-> FALSE,       \* has_reference_frame when the step began
     sends |-> 0,            \* RateLimitedPli::send calls
     attempts |-> 0,         \* peer.write_rtcp calls
     wrote |-> 0,            \* PLI messages that reached the peer
     sendOk |-> TRUE,        \* Result of the send call (TRUE if none was made)
     lastBefore |-> 0,       \* last_pli_time when the step began
     queues |-> 0,           \* queue_input_buffer calls
     refAtQueue |-> FALSE,   \* has_reference_frame at the queue_input_buffer call
     qok |-> TRUE,           \* Result of queue_input_buffer (TRUE if none was made)
     dqok |-> TRUE,          \* Result of dequeue_input_buffer (TRUE if none was made)
     held |-> 0]             \* bytes the depacketizer held when its push failed

\* The record of a step that called RateLimitedPli::send with outcome s
WithSend(e, s) ==
    [e EXCEPT !.sends = 1, !.attempts = s.attempts, !.wrote = Len(s.msgs),
              !.sendOk = s.ok, !.lastBefore = pli.last_pli_time]

\* The record of the last step of the render pump: nothing done
PQuiet(op) ==
    [op |-> op,
     surface |-> 0,          \* the surface of a handled SurfaceCreated
     releases |-> 0,         \* output buffers released
     render |-> FALSE]       \* the `render` argument of the release

\* create_media_engine is not running
BootIdle == [pc |-> "idle"]

BQuiet(op) == [op |-> op]

\* no reorder buffer of its own is followed
RobIdle == [pc |-> "idle"]

RQuiet == [op |-> "none", seq |-> -1, dup |-> FALSE, before |-> 0]

\* no depacketizer of its own is followed
DepIdle == [pc |-> "idle"]

\* no call of its own is followed
CallIdle == [pc |-> "idle"]

(* -------------------------------- Init --------------------------------- *)

\* the platform has published nothing yet and the peer is connected
InitEnv ==
    /\ peer_state = "Connected"
    /\ events = <<>>
    /\ published = 0

\* the pump as start_decoder enters its loop: `let mut render = true`, the
\* decoder bound to the window it was initialized with, no buffer in use
\* a session with its buffers; refs counts the Arc<MediaEngine> that exist,
\* made the sessions created and deleted those deleted so far
Session(refs, made) ==
    [inFree |-> NumIn, inQueued |-> 0, inLost |-> 0, outReady |-> 0, fmt |-> TRUE,
     refs |-> refs, made |-> made, deleted |-> 0]

InitSession(c) ==
    /\ render = TRUE
    /\ bound_surface = 1
    /\ lastSurface = "initial"
    /\ codec = c
    /\ why = "none"
    /\ pev = PQuiet("init")
    /\ result = "none"

\* the session is held by start_decoder and by the feeder task
InitPump == InitSession(Session(2, 1))

Init ==
    /\ InitEnv
    /\ InitPump
    /\ boot = BootIdle
    /\ bev = BQuiet("init")
    /\ rob = RobIdle
    /\ rev = RQuiet
    /\ seen = 0
    /\ queued = <<>>
    /\ dep = DepIdle
    /\ call = CallIdle
    /\ now = StartTime
    /\ track_ssrc \in Ssrcs
    /\ pli = RateLimitedPli_new(track_ssrc, PLI_INTERVAL)
    /\ written = <<>>
    /\ has_reference_frame = FALSE
    /\ reader = [buf |-> <<>>, open |-> FALSE, wrapped |-> FALSE]
    /\ fpc = "start"
    /\ ferr = "none"
    /\ exit = FALSE
    /\ cpc = "pump"
    /\ firstSinceReset = "none"
    /\ gateWasReset = FALSE
    /\ queueFailed = FALSE
    /\ ev = Quiet("init")

(* ------------------------------ the clock ------------------------------ *)

Tick ==
    /\ \E d \in TickSteps : now + d <= MaxTime /\ now' = now + d
    /\ ev' = Quiet("tick")
    /\ UNCHANGED others
    /\ UNCHANGED <<track_ssrc, pli, written, has_reference_frame, reader, fpc, ferr,
                   exit, cpc, firstSinceReset, gateWasReset, queueFailed>>

\* SystemTime is not monotonic: the wall clock is set back
ClockBack ==
    /\ \E d \in TickSteps : now - d >= StartTime /\ now' = now - d
    /\ ev' = Quiet("tick")
    /\ UNCHANGED others
    /\ UNCHANGED <<track_ssrc, pli, written, has_reference_frame, reader, fpc, ferr,
                   exit, cpc, firstSinceReset, gateWasReset, queueFailed>>

(* ------------------------------ the feeder ----------------------------- *)

\* b & mask, for a mask of the form 2^k - 1
bit_and(b, mask) == b % (mask + 1)

\* `nalu[4] & NALU_TYPE_BITMASK` (Rust indexes from 0)
nalu_type(nalu) == bit_and(nalu[5], NALU_TYPE_BITMASK)

\* a gate that takes the low four bits for the NAL type
gate_discards_low_nibble(hasRef, nalu) ==
    ~hasRef /\ bit_and(nalu[5], 15) # NALU_TYPE_IDR_PIC

\* a gate that compares the whole header byte with the IDR type
gate_discards_unmasked(hasRef, nalu) ==
    ~hasRef /\ nalu[5] # NALU_TYPE_IDR_PIC

\* the gate's test on a finished unit: TRUE = the unit is discarded
gate_discards(hasRef, nalu) ==
    ~hasRef /\ nalu_type(nalu) # NALU_TYPE_IDR_PIC

\* has_reference_frame once a unit has passed the gate: the `else` branch
\* under `if !has_reference_frame` sets it
gate_passed(hasRef) == IF ~hasRef THEN TRUE ELSE hasRef

\* has_reference_frame after queue_input_buffer has returned qOk
gate_after_queue(hasRef, qOk) == hasRef

\* the feeder after `pli.send(&peer).await?`
after_send(sendOk) == IF sendOk THEN "loop" ELSE "failed"

\* a feeder that propagates the queue_input_buffer error with `?`
after_queue_propagates(qOk, dqOk) == IF qOk /\ dqOk THEN "loop" ELSE "failed"

\* the feeder after queue_input_buffer returned qOk and
\* `dequeue_input_buffer(..)?` returned dqOk
after_queue(qOk, dqOk) == IF dqOk THEN "loop" ELSE "failed"

\* a feeder whose BufferFull arm does nothing
resets_gate_no_buffer_full(e) ==
    e \in {"HeaderParsingError", "TrackRemoteReadError"}

\* a feeder that takes a payload that is too short for a loss
resets_gate_too_short(e) ==
    e \in {"HeaderParsingError", "TrackRemoteReadError", "BufferFull", "PacketTooShort"}

\* which reorder-buffer errors close the gate
resets_gate(e) ==
    e \in {"HeaderParsingError", "TrackRemoteReadError", "BufferFull"}

\* a session whose last owner deletes it while another is still counted
arc_drop_deletes(c) == [c EXCEPT !.refs = 0, !.deleted = @ + 1]

\* an Arc<MediaEngine> is dropped; the last one runs Drop for MediaEngine,
\* which stops and deletes the codec
arc_drop(c) ==
    [c EXCEPT !.refs = @ - 1, !.deleted = IF c.refs = 1 THEN @ + 1 ELSE @]

\* the session after a step of the feeder: a task that has ended has dropped
\* its decoder_clone
feeder_ends(c, old, new) ==
    IF new \in {"exited", "failed"} /\ old \notin {"exited", "failed"}
    THEN arc_drop(c) ELSE c

\* what a step of the feeder leaves alone, and what becomes of the session
feeder_others ==
    /\ codec' = feeder_ends(codec, fpc, fpc')
    /\ UNCHANGED <<envVars, render, bound_surface, lastSurface, why, pev, result,
                   bootVars, robVars, histVars>>

\* the task body up to the loop: the first input buffer is dequeued and wrapped
FeederStart(dqOk) ==
    /\ fpc = "start"
    /\ IF dqOk
       THEN fpc' = "loop" /\ reader' = wrap_buffer /\ ferr' = ferr
       ELSE fpc' = "failed" /\ ferr' = "MediaEngine" /\ reader' = reader
    /\ ev' = [Quiet("start") EXCEPT !.dqok = dqOk]
    /\ feeder_others
    /\ UNCHANGED <<now, track_ssrc, pli, written, has_reference_frame, exit, cpc,
                   firstSinceReset, gateWasReset, queueFailed>>

\* `while !exit.load(Ordering::Acquire)`: the loop condition
FeederCheck ==
    /\ fpc = "loop"
    /\ fpc' = IF exit THEN "exited" ELSE "recv"
    /\ ev' = Quiet("check")
    /\ feeder_others
    /\ UNCHANGED <<now, track_ssrc, pli, written, has_reference_frame, reader, ferr,
                   exit, cpc, firstSinceReset, gateWasReset, queueFailed>>

\* Ok(payload), push says NeedMoreInput
FeederNeedMore(p) ==
    /\ fpc = "recv"
    /\ push(reader, p).res = "NeedMoreInput"
    /\ reader' = push(reader, p).reader
    /\ fpc' = "loop"
    /\ ev' = [Quiet("need_more") EXCEPT !.recv = "Ok", !.pushed = "NeedMoreInput",
                 !.hadRef = has_reference_frame]
    /\ feeder_others
    /\ UNCHANGED <<now, track_ssrc, pli, written, has_reference_frame, ferr, exit, cpc,
                   firstSinceReset, gateWasReset, queueFailed>>

\* Ok(payload), push says Ok, the gate discards the finished unit
FeederDiscard(p, writeOk) ==
    /\ fpc = "recv"
    /\ push(reader, p).res = "Ok"
    /\ LET r == push(reader, p).reader
           f == finish(r)
           nalu == SubSeq(r.buf, 1, f.n)
           s == RateLimitedPli_send(pli, now, writeOk)
       IN  /\ gate_discards(has_reference_frame, nalu)
           /\ pli' = s.pli
           /\ written' = written \o s.msgs
           /\ fpc' = after_send(s.ok)
           /\ ferr' = IF fpc' = "failed" THEN "RtcpSend" ELSE ferr
           /\ reader' = IF fpc' = "failed" THEN f.reader ELSE wrap_buffer
           /\ ev' = WithSend([Quiet("discard") EXCEPT !.recv = "Ok", !.pushed = "Ok",
                                 !.nalu = nalu, !.hadRef = has_reference_frame], s)
    /\ feeder_others
    /\ UNCHANGED <<now, track_ssrc, has_reference_frame, exit, cpc, firstSinceReset,
                   gateWasReset, queueFailed>>

\* a feeder that leaves the last byte of the queued unit in the buffer
submit_reader_stale(r, dqOk) ==
    [wrap_buffer EXCEPT !.buf = SubSeq(r.buf, Len(r.buf), Len(r.buf))]

\* the depacketizer after a unit was queued: wrapped around the input buffer
\* dequeued next, or left finished where `dequeue_input_buffer(..)?` returns
submit_reader(r, dqOk) == IF dqOk THEN wrap_buffer ELSE finish(r).reader

\* Ok(payload), push says Ok, the finished unit goes to the decoder
FeederSubmit(p, qOk, dqOk) ==
    /\ fpc = "recv"
    /\ push(reader, p).res = "Ok"
    /\ LET r == push(reader, p).reader
           f == finish(r)
           nalu == SubSeq(r.buf, 1, f.n)
           ref == gate_passed(has_reference_frame)
       IN  /\ ~gate_discards(has_reference_frame, nalu)
           /\ has_reference_frame' = gate_after_queue(ref, qOk)
           /\ firstSinceReset' =
                 IF firstSinceReset # "none" THEN firstSinceReset
                 ELSE IF nalu[5] % 32 = 5 THEN "idr" ELSE "other"
           /\ queueFailed' = (queueFailed \/ ~qOk)
           /\ fpc' = after_queue(qOk, dqOk)
           /\ ferr' = IF fpc' = "failed" THEN "MediaEngine" ELSE ferr
           /\ reader' = submit_reader(r, dqOk)
           /\ ev' = [Quiet("submit") EXCEPT !.recv = "Ok", !.pushed = "Ok",
                        !.nalu = nalu, !.hadRef = has_reference_frame, !.queues = 1,
                        !.refAtQueue = ref, !.qok = qOk, !.dqok = dqOk]
    /\ feeder_others
    /\ UNCHANGED <<now, track_ssrc, pli, written, exit, cpc, gateWasReset>>

after_error_keeps(r) == r

\* `reader.finish(); reader = H264Depacketizer::wrap_buffer(&mut input_buffer)`
after_error(r) == LET f == finish(r) IN wrap_buffer

\* the arms that close the gate, reset the depacketizer and ask for a key frame
FeederReset(e, writeOk) ==
    LET s == RateLimitedPli_send(pli, now, writeOk)
    IN  /\ has_reference_frame' = FALSE
        /\ firstSinceReset' = "none"
        /\ gateWasReset' = TRUE
        /\ reader' = after_error(reader)
        /\ pli' = s.pli
        /\ written' = written \o s.msgs
        /\ fpc' = after_send(s.ok)
        /\ ferr' = IF fpc' = "failed" THEN "RtcpSend" ELSE ferr
        /\ ev' = WithSend([e EXCEPT !.hadRef = has_reference_frame], s)
        /\ feeder_others
        /\ UNCHANGED <<now, track_ssrc, exit, cpc, queueFailed>>

\* Ok(payload), push reports an error other than NeedMoreInput
FeederDepackError(p, writeOk) ==
    /\ fpc = "recv"
    /\ push(reader, p).res = "Error"
    /\ FeederReset([Quiet("depack_error") EXCEPT !.recv = "Ok", !.pushed = "Error",
                       !.held = Len(reader.buf)],
                   writeOk)

\* Err(e) from the reorder buffer, an error that implies loss
FeederReorderError(e, writeOk) ==
    /\ fpc = "recv"
    /\ resets_gate(e)
    /\ FeederReset([Quiet("reorder_error") EXCEPT !.recv = e], writeOk)

\* Err(e) from the reorder buffer, PacketTooShort and the arms of `_ => ()`
FeederBenign(e) ==
    /\ fpc = "recv"
    /\ ~resets_gate(e)
    /\ fpc' = "loop"
    /\ ev' = [Quiet("benign") EXCEPT !.recv = e, !.hadRef = has_reference_frame]
    /\ feeder_others
    /\ UNCHANGED <<now, track_ssrc, pli, written, has_reference_frame, reader, ferr,
                   exit, cpc, firstSinceReset, gateWasReset, queueFailed>>

(* ---------------------------- the coordinator -------------------------- *)

\* the render pump leaves its loop and the exit flag is stored
StoreExit ==
    /\ cpc = "pump"
    /\ exit' = TRUE
    /\ cpc' = "joining"
    /\ ev' = Quiet("store_exit")
    /\ UNCHANGED others
    /\ UNCHANGED <<now, track_ssrc, pli, written, has_reference_frame, reader, fpc,
                   ferr, firstSinceReset, gateWasReset, queueFailed>>

\* join_handle.await completes once the feeder task has ended
Join ==
    /\ cpc = "joining"
    /\ fpc \in {"exited", "failed"}
    /\ cpc' = "returned"
    /\ result' = "ApplicationClosed"
    /\ ev' = Quiet("join")
    /\ codec' = arc_drop(codec)
    /\ UNCHANGED <<envVars, render, bound_surface, lastSurface, why, pev, bootVars,
                   robVars, histVars>>
    /\ UNCHANGED <<now, track_ssrc, pli, written, has_reference_frame, reader, fpc,
                   ferr, exit, firstSinceReset, gateWasReset, queueFailed>>

(* ----------------- the limiter on its own, called at will -------------- *)

SendCall(writeOk) ==
    LET s == RateLimitedPli_send(pli, now, writeOk)
    IN  /\ pli' = s.pli
        /\ written' = written \o s.msgs
        /\ ev' = WithSend(Quiet("send"), s)
        /\ UNCHANGED others
        /\ UNCHANGED <<now, track_ssrc, has_reference_frame, reader, fpc, ferr, exit,
                       cpc, firstSinceReset, gateWasReset, queueFailed>>

(* ------------------- the pipeline: platform and peer ------------------- *)

Surfaces == 1..NumSurfaces

MediaPlayerEvent ==
    [type : {"MainActivityDestroyed", "SurfaceDestroyed"}, surface : {0}]
        \cup [type : {"SurfaceCreated"}, surface : Surfaces]

\* the receiver is a local of start_decoder: it is dropped when start_decoder
\* returns, and what is published and not yet received is received by no one
receiver_alive == cpc # "returned"

\* NativeLibSingleton::signal_event, called by the platform (destroy,
\* send_surface, destroy_surface): the event is put on the unbounded channel;
\* n is its place among the events published
signal_event(e) ==
    /\ published < MaxEvents
    /\ events' = Append(events, [type |-> e.type, surface |-> e.surface,
                                  n |-> published + 1])
    /\ published' = published + 1
    /\ UNCHANGED <<peer_state, feederVars, pumpVars, result, bootVars, robVars, histVars>>

\* the peer connection leaves the Connected state
PeerLeaves ==
    /\ peer_state = "Connected"
    /\ peer_state' = "Disconnected"
    /\ UNCHANGED <<events, published, feederVars, pumpVars, result, bootVars, robVars, histVars>>

(* ----------------------- the decoder session (codec) ------------------- *)

\* The codec turns a queued input buffer into an output buffer; it cannot go
\* on while every output buffer waits to be released.
Decode ==
    /\ codec.inQueued > 0
    /\ codec.outReady < NumOut
    /\ codec' = [codec EXCEPT !.inQueued = @ - 1, !.inFree = @ + 1, !.outReady = @ + 1]
    /\ UNCHANGED <<envVars, feederVars, render, bound_surface, lastSurface, why, pev,
                   result, bootVars, robVars, histVars>>

(* ------------- the feeder working on the buffers of the codec ---------- *)

\* the task body up to the loop; dequeue_input_buffer(MediaTimeout::INFINITE)
\* waits for a free input buffer
FeederStartCodec(dqOk) ==
    /\ fpc = "start"
    /\ codec.inFree > 0
    /\ codec' = feeder_ends([codec EXCEPT !.inFree = @ - 1], fpc,
                            IF dqOk THEN "loop" ELSE "failed")
    /\ IF dqOk
       THEN fpc' = "loop" /\ reader' = wrap_buffer /\ ferr' = ferr
       ELSE fpc' = "failed" /\ ferr' = "MediaEngine" /\ reader' = reader
    /\ ev' = [Quiet("start") EXCEPT !.dqok = dqOk]
    /\ UNCHANGED <<now, track_ssrc, pli, written, has_reference_frame, exit, cpc,
                   firstSinceReset, gateWasReset, queueFailed>>
    /\ UNCHANGED <<envVars, render, bound_surface, lastSurface, why, pev, result,
                   bootVars, robVars, histVars>>

\* a feeder that keeps the buffer of a failed queue_input_buffer for the next
\* unit and so holds two once it has dequeued again
queue_input_buffer_keeps(c, qOk) ==
    IF qOk THEN [c EXCEPT !.inQueued = @ + 1] ELSE c

\* MediaEngine::queue_input_buffer takes the MediaInputBuffer by value: the
\* codec has it when the call succeeds; when it fails the value is dropped
\* with the call and the index is neither with the codec nor with the feeder
queue_input_buffer(c, qOk) ==
    IF qOk THEN [c EXCEPT !.inQueued = @ + 1] ELSE [c EXCEPT !.inLost = @ + 1]

\* Ok(payload), push says Ok, the finished unit passes the gate and is queued;
\* the feeder then waits in dequeue_input_buffer(MediaTimeout::INFINITE)
FeederQueue(p, qOk) ==
    /\ fpc = "recv"
    /\ push(reader, p).res = "Ok"
    /\ LET r == push(reader, p).reader
           f == finish(r)
           nalu == SubSeq(r.buf, 1, f.n)
           ref == gate_passed(has_reference_frame)
       IN  /\ ~gate_discards(has_reference_frame, nalu)
           /\ has_reference_frame' = gate_after_queue(ref, qOk)
           /\ firstSinceReset' =
                 IF firstSinceReset # "none" THEN firstSinceReset
                 ELSE IF nalu[5] % 32 = 5 THEN "idr" ELSE "other"
           /\ codec' = queue_input_buffer(codec, qOk)
           /\ fpc' = "dequeue"
           /\ reader' = f.reader
           /\ ev' = [Quiet("submit") EXCEPT !.recv = "Ok", !.pushed = "Ok",
                        !.nalu = nalu, !.hadRef = has_reference_frame, !.queues = 1,
                        !.refAtQueue = ref, !.qok = qOk]
    /\ UNCHANGED <<now, track_ssrc, pli, written, ferr, exit, cpc, gateWasReset,
                   queueFailed>>
    /\ UNCHANGED <<envVars, render, bound_surface, lastSurface, why, pev, result,
                   bootVars, robVars, histVars>>

\* dequeue_input_buffer(MediaTimeout::INFINITE) returns once the codec has a
\* free input buffer; the depacketizer is wrapped around it
FeederDequeue(dqOk) ==
    /\ fpc = "dequeue"
    /\ codec.inFree > 0
    /\ fpc' = after_queue(TRUE, dqOk)
    /\ codec' = feeder_ends([codec EXCEPT !.inFree = @ - 1], fpc, fpc')
    /\ ferr' = IF fpc' = "failed" THEN "MediaEngine" ELSE ferr
    /\ reader' = IF dqOk THEN wrap_buffer ELSE reader
    /\ ev' = [Quiet("dequeue") EXCEPT !.dqok = dqOk]
    /\ UNCHANGED <<now, track_ssrc, pli, written, has_reference_frame, exit, cpc,
                   firstSinceReset, gateWasReset, queueFailed>>
    /\ UNCHANGED <<envVars, render, bound_surface, lastSurface, why, pev, result,
                   bootVars, robVars, histVars>>

(* ---------------------------- the render pump -------------------------- *)

\* a pump that keeps rendering after SurfaceDestroyed
pump_render_keeps(type, r) ==
    CASE type = "SurfaceCreated" -> TRUE
      [] OTHER -> r

\* the render flag after the pump has handled an event of this type
pump_render(type, r) ==
    CASE type = "SurfaceCreated" -> TRUE
      [] type = "SurfaceDestroyed" -> FALSE
      [] OTHER -> r

\* what the pump does when it leaves its loop with `break`: line 236 stores
\* the exit flag, and it goes on to await the feeder
pump_break(reason) ==
    /\ exit' = TRUE
    /\ cpc' = "joining"
    /\ why' = reason
    /\ pev' = PQuiet("break")
    /\ UNCHANGED <<now, track_ssrc, pli, written, has_reference_frame, reader, fpc,
                   ferr, firstSinceReset, gateWasReset, queueFailed, ev>>
    /\ UNCHANGED <<peer_state, published, render, bound_surface, lastSurface, codec,
                   result, bootVars, robVars, logVars>>

\* what the pump does when a `?` returns from start_decoder inside the loop
pump_return(err) ==
    /\ cpc' = "returned"
    /\ result' = err
    /\ why' = "error"
    /\ codec' = arc_drop(codec)
    /\ UNCHANGED <<now, track_ssrc, pli, written, has_reference_frame, reader, fpc,
                   ferr, exit, firstSinceReset, gateWasReset, queueFailed, ev>>
    /\ UNCHANGED <<peer_state, published, bound_surface, lastSurface,
                   bootVars, robVars, logVars>>

\* the peer is no longer Connected: break
PumpPeerGone ==
    /\ cpc = "pump"
    /\ peer_state # "Connected"
    /\ events' = events
    /\ seen' = seen
    /\ pump_break("peer")

\* try_recv yields MainActivityDestroyed: break
PumpDestroyed ==
    /\ cpc = "pump"
    /\ peer_state = "Connected"
    /\ events # <<>> /\ Head(events).type = "MainActivityDestroyed"
    /\ events' = Tail(events)
    /\ seen' = seen + 1
    /\ pump_break("destroyed")

\* try_recv yields SurfaceCreated(surface); the thread is attached to the VM,
\* the native window acquired and the decoder bound to it, each of which may
\* fail and then returns from start_decoder
PumpSurfaceCreated(outcome) ==
    /\ cpc = "pump"
    /\ peer_state = "Connected"
    /\ events # <<>> /\ Head(events).type = "SurfaceCreated"
    /\ events' = Tail(events)
    /\ seen' = seen + 1
    /\ LET e == Head(events)
       IN  CASE outcome = "Ok" ->
                  /\ render' = pump_render(e.type, render)
                  /\ bound_surface' = e.surface
                  /\ lastSurface' = IF lastSurface = "destroyed" THEN "recreated"
                                                                ELSE "created"
                  /\ pev' = [PQuiet("surface_created") EXCEPT !.surface = e.surface]
                  /\ UNCHANGED <<feederVars, peer_state, published, codec, why, result,
                                 bootVars, robVars, logVars>>
             [] outcome \in {"AttachThread", "NativeWindowCreate"} ->
                  /\ render' = render
                  /\ pev' = PQuiet("surface_failed")
                  /\ pump_return(outcome)
             [] outcome = "MediaEngine" ->
                  /\ render' = pump_render(e.type, render)
                  /\ pev' = PQuiet("surface_failed")
                  /\ pump_return(outcome)

\* try_recv yields SurfaceDestroyed
PumpSurfaceDestroyed ==
    /\ cpc = "pump"
    /\ peer_state = "Connected"
    /\ events # <<>> /\ Head(events).type = "SurfaceDestroyed"
    /\ events' = Tail(events)
    /\ seen' = seen + 1
    /\ render' = pump_render(Head(events).type, render)
    /\ lastSurface' = "destroyed"
    /\ pev' = PQuiet("surface_destroyed")
    /\ UNCHANGED <<feederVars, peer_state, published, bound_surface, codec, why,
                   result, bootVars, robVars, logVars>>

\* try_recv yields Empty: release_output_buffer(MediaTimeout::INFINITE, render)
\* is entered and waits in AMediaCodec_dequeueOutputBuffer
PumpEmpty ==
    /\ cpc = "pump"
    /\ peer_state = "Connected"
    /\ events = <<>>
    /\ cpc' = "release"
    /\ pev' = PQuiet("empty")
    /\ UNCHANGED <<now, track_ssrc, pli, written, has_reference_frame, reader, fpc,
                   ferr, exit, firstSinceReset, gateWasReset, queueFailed, ev>>
    /\ UNCHANGED <<envVars, render, bound_surface, lastSurface, codec, why, result,
                   bootVars, robVars, histVars>>

\* release_output_buffer: an output buffer is there and is released with the
\* render flag; an error of the release is logged
PumpRelease(releaseOk) ==
    /\ cpc = "release"
    /\ codec.outReady > 0
    /\ codec' = [codec EXCEPT !.outReady = @ - 1]
    /\ cpc' = "pump"
    /\ pev' = [PQuiet("release") EXCEPT !.releases = 1, !.render = render]
    /\ UNCHANGED <<now, track_ssrc, pli, written, has_reference_frame, reader, fpc,
                   ferr, exit, firstSinceReset, gateWasReset, queueFailed, ev>>
    /\ UNCHANGED <<envVars, render, bound_surface, lastSurface, why, result,
                   bootVars, robVars, histVars>>

\* release_output_buffer: AMediaCodec_dequeueOutputBuffer reports
\* OUTPUT_FORMAT_CHANGED, nothing is released
PumpFormatChanged ==
    /\ cpc = "release"
    /\ codec.fmt
    /\ codec' = [codec EXCEPT !.fmt = FALSE]
    /\ cpc' = "pump"
    /\ pev' = PQuiet("format_changed")
    /\ UNCHANGED <<now, track_ssrc, pli, written, has_reference_frame, reader, fpc,
                   ferr, exit, firstSinceReset, gateWasReset, queueFailed, ev>>
    /\ UNCHANGED <<envVars, render, bound_surface, lastSurface, why, result,
                   bootVars, robVars, histVars>>

(* ------------------------- the H264 decoder state ---------------------- *)

NALU_TYPE_SPS == 7

NALU_TYPE_PPS == 8

\* an Option: None is the empty sequence, Some(x) is <<x>>
None == <<>>

Some(x) == <<x>>

\* the second byte of a sequence parameter set whose resolution can be parsed
ParsableSps == 66

\* NAL units that arrive during bootstrap, without start code
SPS_OK == <<103, ParsableSps>>

SPS_BAD == <<103, 9>>

PPS == <<104, 7>>

IDR == <<101, 9>>

\* the access unit the depacketizer writes for these NAL units
RECURSIVE Unit(_)
Unit(nals) ==
    IF nals = <<>> THEN <<>> ELSE NALU_DELIMITER \o Head(nals) \o Unit(Tail(nals))

\* the access units finished during bootstrap
BootUnits ==
    {Unit(<<>>), Unit(<<SPS_OK>>), Unit(<<SPS_BAD>>), Unit(<<PPS>>), Unit(<<IDR>>),
     Unit(<<SPS_OK, PPS>>)}

IsDelimAt(b, i) == i + 3 <= Len(b) /\ SubSeq(b, i, i + 3) = NALU_DELIMITER

RECURSIVE nalu_chunks_from(_, _, _)
nalu_chunks_from(b, start, i) ==
    IF i > Len(b)
    THEN IF start <= Len(b) THEN <<SubSeq(b, start, Len(b))>> ELSE <<>>
    ELSE IF IsDelimAt(b, i)
         THEN (IF i > start THEN <<SubSeq(b, start, i - 1)>> ELSE <<>>)
                  \o nalu_chunks_from(b, i + 4, i + 4)
         ELSE nalu_chunks_from(b, start, i + 1)

\* nalu_chunks: the NAL units between the start codes of a payload
nalu_chunks(b) == nalu_chunks_from(b, 1, 1)

\* H264Codec::get_resolution of a sequence parameter set
get_resolution(nalu) ==
    IF Len(nalu) >= 2 /\ nalu[2] = ParsableSps THEN Some(<<16, 16>>) ELSE None

\* H264Decoder::default
H264Decoder_default ==
    [sps |-> None, pps |-> None, codec_config |-> None, resolution |-> None]

\* H264Decoder::init_done
init_done(d) == d.codec_config # None /\ d.resolution # None

\* H264Decoder::build_codec_config
build_codec_config(d) ==
    IF d.sps # None /\ d.pps # None /\ d.resolution # None
    THEN [d EXCEPT !.codec_config =
              Some(NALU_DELIMITER \o d.sps[1] \o NALU_DELIMITER \o d.pps[1])]
    ELSE d

\* the `for nalu in nalu_chunks(payload)` loop of read_payload
RECURSIVE read_nalus(_, _)
read_nalus(d, chunks) ==
    IF chunks = <<>> THEN [decoder |-> d, ok |-> TRUE]
    ELSE LET nalu == Head(chunks)
             t == bit_and(nalu[1], NALU_TYPE_BITMASK)
         IN  CASE t = NALU_TYPE_SPS ->
                    read_nalus(IF get_resolution(nalu) # None
                               THEN build_codec_config(
                                        [d EXCEPT !.resolution = get_resolution(nalu),
                                                  !.sps = Some(nalu)])
                               ELSE d,
                               Tail(chunks))
               [] t = NALU_TYPE_PPS ->
                    read_nalus(build_codec_config([d EXCEPT !.pps = Some(nalu)]),
                               Tail(chunks))
               [] OTHER -> [decoder |-> d, ok |-> FALSE]

\* a decoder that takes in nothing of a payload on which it returns Err
read_payload_all_or_nothing(d, payload) ==
    LET r == read_nalus(d, nalu_chunks(payload))
    IN  IF payload # <<>> /\ r.ok THEN r ELSE [decoder |-> d, ok |-> FALSE]

\* H264Decoder::read_payload
read_payload(d, payload) ==
    IF payload = <<>> THEN [decoder |-> d, ok |-> FALSE]
    ELSE read_nalus(d, nalu_chunks(payload))

(* ---------------------------- the bootstrap ---------------------------- *)

\* the locals of create_media_engine before its loop
BootNew(ssrc) ==
    [pc |-> "loop",
     result |-> "none",
     pli |-> RateLimitedPli_new(ssrc, PLI_INTERVAL),
     native_window |-> 0,            \* 0 is None, otherwise the surface
     decoder |-> H264Decoder_default,
     session |-> <<>>,               \* the calls made on the decoder session
     lastSurf |-> "none",            \* the last surface event consumed
     consumed |-> FALSE,             \* MainActivityDestroyed was consumed
     queued |-> FALSE]               \* it was in the channel at the return

\* The record of the last step of create_media_engine
BStep(op) == [op |-> op, unit |-> <<>>, sends |-> 0, readOk |-> TRUE]

\* a sequencer that builds as soon as the configuration is known
build_ready_any_window(window, d) == init_done(d)

\* `native_window.is_some() && decoder.init_done()`
build_ready(window, d) == window # 0 /\ init_done(d)

\* a sequencer that submits the configuration before the session is initialized
build_calls_config_first(outcome) ==
    CASE outcome = "NoDecoderFound" -> <<>>
      [] OTHER -> <<"create_by_name", "submit_codec_config", "initialize">>

\* the calls create_by_name, initialize and submit_codec_config make on the
\* session, up to the first that fails
build_calls(outcome) ==
    CASE outcome \in {"AttachThread", "SetAspectRatio", "NoDecoderFound"} -> <<>>
      [] outcome = "Initialize" -> <<"create_by_name">>
      [] outcome = "SubmitConfig" -> <<"create_by_name", "initialize">>
      [] OTHER -> <<"create_by_name", "initialize", "submit_codec_config">>

\* a sequencer that takes MainActivityDestroyed for any other event
boot_event_aborts_never(type) == FALSE

\* the event on which the sequencer returns ApplicationClosed
boot_event_aborts(type) == type = "MainActivityDestroyed"

HasDestroyed(evs) == \E i \in DOMAIN evs : evs[i].type = "MainActivityDestroyed"

\* create_media_engine returns r, with evs left in the channel
BootReturned(b, r, evs) ==
    [b EXCEPT !.pc = "returned", !.result = r, !.queued = HasDestroyed(evs)]

\* the session once create_media_engine has returned: create_by_name made
\* one, which the caller owns, or which was dropped with the error
built(c, b) ==
    IF b.pc = "returned" /\ b.session # <<>>
    THEN IF b.result = "Ok" THEN [c EXCEPT !.made = @ + 1, !.refs = 1]
         ELSE [c EXCEPT !.made = @ + 1, !.deleted = @ + 1]
    ELSE c

\* one step of create_media_engine; an Err is passed on by start_decoder
BootStep(b, e, evs, w) ==
    /\ boot' = b
    /\ codec' = built(codec, b)
    /\ bev' = e
    /\ events' = evs
    /\ seen' = seen + (Len(events) - Len(evs))
    /\ written' = w
    /\ IF b.pc = "returned" /\ b.result # "Ok"
       THEN cpc' = "returned" /\ result' = b.result
       ELSE UNCHANGED <<cpc, result>>
    /\ UNCHANGED <<now, track_ssrc, pli, has_reference_frame, reader, fpc, ferr, exit,
                   firstSinceReset, gateWasReset, queueFailed, ev>>
    /\ UNCHANGED <<peer_state, published, render, bound_surface, lastSurface,
                   why, pev, robVars, logVars>>

\* the peer is no longer Connected
BootPeerGone ==
    /\ boot.pc = "loop"
    /\ peer_state # "Connected"
    /\ BootStep(BootReturned(boot, "ApplicationClosed", events), BStep("peer"),
                events, written)

BuildOutcomes == {"Ok", "AttachThread", "SetAspectRatio", "NoDecoderFound",
                  "Initialize", "SubmitConfig"}

\* everything has been gathered: the session is created, initialized against
\* the window and given the configuration; each call may fail
BootBuild(outcome) ==
    /\ boot.pc = "loop"
    /\ peer_state = "Connected"
    /\ build_ready(boot.native_window, boot.decoder)
    /\ LET r == IF outcome \in {"Initialize", "SubmitConfig"} THEN "MediaEngine"
                                                               ELSE outcome
           b == [boot EXCEPT !.session = build_calls(outcome)]
       IN  BootStep(BootReturned(b, r, events), BStep("build"), events, written)

\* try_recv yields MainActivityDestroyed
BootDestroyed ==
    /\ boot.pc = "loop"
    /\ peer_state = "Connected"
    /\ ~build_ready(boot.native_window, boot.decoder)
    /\ events # <<>> /\ Head(events).type = "MainActivityDestroyed"
    /\ LET b == [boot EXCEPT !.consumed = TRUE]
       IN  BootStep(IF boot_event_aborts(Head(events).type)
                    THEN BootReturned(b, "ApplicationClosed", Tail(events))
                    ELSE b,
                    BStep("MainActivityDestroyed"), Tail(events), written)

\* try_recv yields SurfaceCreated(surface)
BootSurfaceCreated(outcome) ==
    /\ boot.pc = "loop"
    /\ peer_state = "Connected"
    /\ ~build_ready(boot.native_window, boot.decoder)
    /\ events # <<>> /\ Head(events).type = "SurfaceCreated"
    /\ LET b == [boot EXCEPT !.lastSurf = "SurfaceCreated"]
       IN  BootStep(IF outcome = "Ok"
                    THEN [b EXCEPT !.native_window = Head(events).surface]
                    ELSE BootReturned(b, outcome, Tail(events)),
                    BStep("SurfaceCreated"), Tail(events), written)

\* try_recv yields SurfaceDestroyed
BootSurfaceDestroyed ==
    /\ boot.pc = "loop"
    /\ peer_state = "Connected"
    /\ ~build_ready(boot.native_window, boot.decoder)
    /\ events # <<>> /\ Head(events).type = "SurfaceDestroyed"
    /\ BootStep([boot EXCEPT !.native_window = 0, !.lastSurf = "SurfaceDestroyed"],
                BStep("SurfaceDestroyed"), Tail(events), written)

\* try_recv yields Empty: the sequencer awaits reorder_buffer.recv()
BootEmpty ==
    /\ boot.pc = "loop"
    /\ peer_state = "Connected"
    /\ ~build_ready(boot.native_window, boot.decoder)
    /\ events = <<>>
    /\ BootStep([boot EXCEPT !.pc = "recv"], BStep("empty"), events, written)

\* the sequencer after `pli.send(peer).await?`
BootAfterSend(b, s, evs) ==
    IF s.ok THEN [b EXCEPT !.pc = "loop", !.pli = s.pli]
    ELSE BootReturned([b EXCEPT !.pli = s.pli], "RtcpSend", evs)

\* Ok(payload), push says Ok: the finished unit is read for parameters
BootUnit(u, writeOk) ==
    /\ boot.pc = "recv"
    /\ LET rd == read_payload(boot.decoder, u)
           b == [boot EXCEPT !.decoder = rd.decoder]
           s == RateLimitedPli_send(boot.pli, now, writeOk)
       IN  IF rd.ok
           THEN BootStep([b EXCEPT !.pc = "loop"],
                         [BStep("unit") EXCEPT !.unit = u], events, written)
           ELSE BootStep(BootAfterSend(b, s, events),
                         [BStep("unit") EXCEPT !.unit = u, !.sends = 1, !.readOk = FALSE],
                         events, written \o s.msgs)

\* Ok(payload), push says NeedMoreInput
BootNeedMore ==
    /\ boot.pc = "recv"
    /\ BootStep([boot EXCEPT !.pc = "loop"], BStep("need_more"), events, written)

\* a depacketization error, or a reorder-buffer error that asks for a key frame
BootLoss(writeOk) ==
    /\ boot.pc = "recv"
    /\ LET s == RateLimitedPli_send(boot.pli, now, writeOk)
       IN  BootStep(BootAfterSend(boot, s, events),
                    [BStep("loss") EXCEPT !.sends = 1], events, written \o s.msgs)

\* PacketTooShort and the errors of the `_` arm
BootBenign ==
    /\ boot.pc = "recv"
    /\ BootStep([boot EXCEPT !.pc = "loop"], BStep("benign"), events, written)

\* the pump goes on with the receiver create_media_engine has used: what is
\* in the channel stays there
handoff(evs) == evs

\* `decoder = Arc::new(create_media_engine(..)?)`, then the feeder is spawned
\* and the render pump entered
Spawn ==
    /\ cpc = "boot"
    /\ boot.pc = "returned" /\ boot.result = "Ok"
    /\ cpc' = "pump"
    /\ fpc' = "start"
    /\ bound_surface' = boot.native_window
    /\ UNCHANGED <<now, track_ssrc, pli, written, has_reference_frame, reader, ferr,
                   exit, firstSinceReset, gateWasReset, queueFailed, ev>>
    /\ events' = handoff(events)
    /\ codec' = [codec EXCEPT !.refs = @ + 1]
    /\ UNCHANGED <<peer_state, published, render, lastSurface, why, pev, result,
                   bootVars, robVars, histVars>>

(* --------------------------- the reorder buffer ------------------------ *)

\* sequence numbers are 16 bits wide
SeqMod == 65536

\* the sequence numbers on the track: a run that crosses 65535 -> 0
SeqNums == {(SeqMod - 2 + k) % SeqMod : k \in 0..(NumSeq - 1)}

\* a buffer that compares sequence numbers as plain integers
seq_diff_unsigned(a, b) == a - b

\* `(a - b) as i16`
seq_diff(a, b) ==
    LET d == (a - b + SeqMod) % SeqMod
    IN  IF d >= SeqMod \div 2 THEN d - SeqMod ELSE d

\* a buffer that counts the expected number past 65535
next_expected_no_wrap(e) == e + 1

\* the sequence number expected after e
next_expected(e) == (e + 1) % SeqMod

\* a buffer that also keeps packets older than the expected one
accepts_any(expected, window, s) == s \notin window

\* a buffer that stores a packet again when it is already in the window
accepts_dups(expected, window, s) == seq_diff(s, expected) >= 0

\* a pulled packet goes into the window unless it is older than the expected
\* sequence number or already there
accepts(expected, window, s) == seq_diff(s, expected) >= 0 /\ s \notin window

\* a buffer that goes on with the newest packet it holds
oldest_newest(window) == CHOOSE s \in window : \A t \in window : seq_diff(s, t) >= 0

\* the oldest sequence number of a window
oldest(window) == CHOOSE s \in window : \A t \in window : seq_diff(t, s) >= 0

\* BufferedTrackRemote::new: nothing expected yet (-1), nothing buffered
RobNew ==
    [expected |-> -1, window |-> {},
     entries |-> 0,              \* number of packets the window holds
     arrived |-> <<>>,           \* the packets read from the track, in order
     delivered |-> <<>>,         \* the sequence numbers recv() has returned
     errors |-> 0,               \* BufferFull results
     gen |-> 0,                  \* 0: the bootstrap's buffer, 1: the feeder's
     left |-> -1,                \* what the bootstrap's buffer expected at its end
     lost |-> {}]                \* what it still held at its end

robFrame == UNCHANGED <<feederVars, envVars, pumpVars, result, bootVars, histVars>>

\* the buffer after recv() has read the packet s from the track
rob_pull(r, s) ==
    LET e == IF r.expected = -1 THEN s ELSE r.expected
        a == accepts(e, r.window, s)
    IN  [r EXCEPT !.expected = e,
                  !.window = IF a THEN @ \cup {s} ELSE @,
                  !.entries = IF a THEN @ + 1 ELSE @,
                  !.arrived = Append(@, s)]

\* the buffer after recv() has returned the payload of the expected packet
rob_deliver(r) ==
    [r EXCEPT !.window = @ \ {r.expected},
              !.entries = @ - 1,
              !.delivered = Append(@, r.expected),
              !.expected = next_expected(@)]

\* the buffer after recv() has returned BufferFull
rob_full(r) == [r EXCEPT !.expected = oldest(r.window), !.errors = @ + 1]

\* recv() may read a further packet
CanPull(r) ==
    r.expected = -1 \/ (r.expected \notin r.window /\ r.entries < WindowCap)

\* recv() cannot go on: the window is full without the expected packet
IsFull(r) == r.expected # -1 /\ r.expected \notin r.window /\ r.entries >= WindowCap

\* recv() reads a packet from the track; the first packet read sets the
\* expected sequence number
RobPull(s) ==
    /\ Len(rob.arrived) < MaxArrivals
    /\ CanPull(rob)
    /\ rob' = rob_pull(rob, s)
    /\ rev' = [op |-> "pull", seq |-> s, dup |-> s \in rob.window,
               before |-> rob.entries]
    /\ robFrame

\* the expected sequence number is in the window: recv() returns its payload
RobDeliver ==
    /\ rob.expected \in rob.window
    /\ rob' = rob_deliver(rob)
    /\ rev' = [op |-> "deliver", seq |-> rob.expected, dup |-> FALSE,
               before |-> rob.entries]
    /\ robFrame

\* the window is full and the expected sequence number is not in it: recv()
\* returns BufferFull and goes on with the oldest packet it holds
RobFull ==
    /\ IsFull(rob)
    /\ rob' = rob_full(rob)
    /\ rev' = [op |-> "BufferFull", seq |-> rob.expected, dup |-> FALSE,
               before |-> rob.entries]
    /\ robFrame

(* ---------------------------- specifications --------------------------- *)

Next ==
    \/ Tick
    \/ \E dqOk \in BOOLEAN : FeederStart(dqOk)
    \/ FeederCheck
    \/ \E p \in Payloads : FeederNeedMore(p)
    \/ \E p \in Payloads, w \in BOOLEAN : FeederDiscard(p, w)
    \/ \E p \in Payloads, q \in BOOLEAN, d \in BOOLEAN : FeederSubmit(p, q, d)
    \/ \E p \in Payloads, w \in BOOLEAN : FeederDepackError(p, w)
    \/ \E e \in ReorderBufferError, w \in BOOLEAN : FeederReorderError(e, w)
    \/ \E e \in ReorderBufferError : FeederBenign(e)
    \/ StoreExit
    \/ Join

Spec == Init /\ [][Next]_vars

NextPli ==
    \/ Tick
    \/ ClockBack
    \/ \E w \in BOOLEAN : SendCall(w)

SpecPli == Init /\ [][NextPli]_vars

\* the payloads, errors and failures followed in the pipeline
PipePayloads == [kind : {"single"}, hdr : {101, 65}]

PipeErrors == {"BufferFull", "TrackRemoteReadTimeout"}

\* the pipeline of one track
InitPipeline ==
    /\ Init
    /\ track_ssrc = 1

SurfaceOutcomes == {"Ok", "AttachThread", "NativeWindowCreate", "MediaEngine"}

\* the reorder buffer of one track on its own
InitReorder ==
    /\ InitEnv
    /\ InitPump
    /\ boot = BootIdle
    /\ bev = BQuiet("init")
    /\ rob = RobNew
    /\ rev = RQuiet
    /\ seen = 0
    /\ queued = <<>>
    /\ dep = DepIdle
    /\ call = CallIdle
    /\ now = StartTime
    /\ track_ssrc = 1
    /\ pli = RateLimitedPli_new(track_ssrc, PLI_INTERVAL)
    /\ written = <<>>
    /\ has_reference_frame = FALSE
    /\ reader = [buf |-> <<>>, open |-> FALSE, wrapped |-> FALSE]
    /\ fpc = "start"
    /\ ferr = "none"
    /\ exit = FALSE
    /\ cpc = "pump"
    /\ firstSinceReset = "none"
    /\ gateWasReset = FALSE
    /\ queueFailed = FALSE
    /\ ev = Quiet("init")

NextReorder ==
    \/ \E s \in SeqNums : RobPull(s)
    \/ RobDeliver
    \/ RobFull

SpecReorder == InitReorder /\ [][NextReorder]_vars

\* the depacketizer on its own: units are pushed whole or in fragments
UnitData == UNION {[1..n -> DataBytes] : n \in 0..MaxData}

\* a NAL unit: its header byte and its data
NalUnits == {<<h>> \o d : h \in HdrBytes, d \in UnitData}

\* the places where a unit can be cut into fragments: after byte c
Cuts(u) == SUBSET (1..(Len(u) - 1))

\* the payload that carries the unit whole
single_payload(u) == [kind |-> "single", hdr |-> u[1], data |-> Tail(u)]

RECURSIVE fragments_from(_, _, _)
\* the fragments of u from byte i on, cut after the bytes in cuts
fragments_from(u, cuts, i) ==
    LET later == {c \in cuts : c >= i}
        e == IF later = {} THEN Len(u)
             ELSE CHOOSE c \in later : \A d \in later : c <= d
        piece == SubSeq(u, i, e)
        kind == IF i = 1 THEN "start" ELSE IF e = Len(u) THEN "end" ELSE "mid"
    IN  <<[kind |-> kind, hdr |-> piece[1], data |-> Tail(piece)]>>
            \o (IF e = Len(u) THEN <<>> ELSE fragments_from(u, cuts, e + 1))

\* the payloads that carry unit u: one payload, or its fragments
payloads_of(u, cuts) ==
    IF cuts = {} THEN <<single_payload(u)>> ELSE fragments_from(u, cuts, 1)

\* a unit about to be pushed into a freshly wrapped buffer
DepNew(u, cuts) ==
    [pc |-> "push", unit |-> u, cuts |-> cuts, todo |-> payloads_of(u, cuts),
     last |-> "none", res |-> "none", out |-> <<>>, n |-> 0, units |-> 0]

depFrame ==
    UNCHANGED <<now, track_ssrc, pli, written, has_reference_frame, fpc, ferr, exit,
                cpc, firstSinceReset, gateWasReset, queueFailed, ev, envVars,
                pumpVars, result, bootVars, robVars, seen, queued, call>>

\* reader.push(payload) with the next payload of the unit
DepPush ==
    /\ dep.pc = "push"
    /\ dep.todo # <<>>
    /\ LET f == Head(dep.todo)
           r == push(reader, f)
       IN  /\ reader' = r.reader
           /\ dep' = [dep EXCEPT !.todo = Tail(@), !.last = f.kind, !.res = r.res,
                                 !.pc = CASE r.res = "Ok" -> "finish"
                                          [] r.res = "NeedMoreInput" -> "push"
                                          [] OTHER -> "error"]
    /\ depFrame

\* reader.finish() and `&input_buffer[..n]`
DepFinish ==
    /\ dep.pc = "finish"
    /\ LET f == finish(reader)
       IN  /\ reader' = f.reader
           /\ dep' = [dep EXCEPT !.pc = "done", !.n = f.n,
                                 !.out = SubSeq(reader.buf, 1, f.n)]
    /\ depFrame

\* H264Depacketizer::wrap_buffer for the next unit
DepWrap ==
    /\ dep.pc \in {"done", "error"}
    /\ dep.units < 1
    /\ reader' = wrap_buffer
    /\ \E u \in NalUnits : \E cuts \in Cuts(u) :
            dep' = [DepNew(u, cuts) EXCEPT !.units = dep.units + 1]
    /\ depFrame

InitDepack ==
    /\ InitEnv
    /\ InitPump
    /\ boot = BootIdle
    /\ bev = BQuiet("init")
    /\ rob = RobIdle
    /\ rev = RQuiet
    /\ seen = 0
    /\ queued = <<>>
    /\ \E u \in NalUnits : \E cuts \in Cuts(u) : dep = DepNew(u, cuts)
    /\ call = CallIdle
    /\ now = StartTime
    /\ track_ssrc = 1
    /\ pli = RateLimitedPli_new(track_ssrc, PLI_INTERVAL)
    /\ written = <<>>
    /\ has_reference_frame = FALSE
    /\ reader = wrap_buffer
    /\ fpc = "start"
    /\ ferr = "none"
    /\ exit = FALSE
    /\ cpc = "pump"
    /\ firstSinceReset = "none"
    /\ gateWasReset = FALSE
    /\ queueFailed = FALSE
    /\ ev = Quiet("init")
    /\ result = "none"

NextDepack ==
    \/ DepPush
    \/ DepFinish
    \/ DepWrap

SpecDepack == InitDepack /\ [][NextDepack]_vars

\* the feeder behind its reorder buffer: every payload carries the low byte
\* of its sequence number, so that a queued unit tells which payloads it holds
seq_tag(s) == s % 256

\* the payload the packet s carries
fifo_payload(kind, h, s) ==
    IF kind \in {"single", "start"}
    THEN [kind |-> kind, hdr |-> h, data |-> <<seq_tag(s)>>]
    ELSE [kind |-> kind, hdr |-> seq_tag(s)]

FifoKinds == {"single", "start", "end"}

FifoHdrs == {101, 65}

\* the payloads pushed so far
FifoNew == [pc |-> "fifo", pushed |-> <<>>]

\* what an iteration of the feeder leaves alone, and what becomes of the session
fifo_others ==
    /\ codec' = feeder_ends(codec, fpc, fpc')
    /\ UNCHANGED <<now, track_ssrc, exit, cpc, firstSinceReset, gateWasReset,
                   queueFailed, envVars, render, bound_surface, lastSurface, why,
                   pev, result, bootVars, seen, call>>

\* recv() returns the payload of the expected packet and the feeder pushes it
FifoRecv(p) ==
    /\ fpc = "loop" /\ ~exit
    /\ rob.expected \in rob.window
    /\ rob' = rob_deliver(rob)
    /\ rev' = [op |-> "deliver", seq |-> rob.expected, dup |-> FALSE,
               before |-> rob.entries]
    /\ dep' = [dep EXCEPT !.pushed = Append(@, rob.expected)]

\* push says NeedMoreInput
FifoNeedMore(kind, h) ==
    LET p == fifo_payload(kind, h, rob.expected)
    IN  /\ FifoRecv(p)
        /\ push(reader, p).res = "NeedMoreInput"
        /\ reader' = push(reader, p).reader
        /\ ev' = [Quiet("need_more") EXCEPT !.recv = "Ok", !.pushed = "NeedMoreInput",
                     !.hadRef = has_reference_frame]
        /\ UNCHANGED <<pli, written, has_reference_frame, fpc, ferr, queued>>
        /\ fifo_others

\* push says Ok and the gate discards the unit
FifoDiscard(kind, h, writeOk) ==
    LET p == fifo_payload(kind, h, rob.expected)
        r == push(reader, p).reader
        f == finish(r)
        nalu == SubSeq(r.buf, 1, f.n)
        s == RateLimitedPli_send(pli, now, writeOk)
    IN  /\ FifoRecv(p)
        /\ push(reader, p).res = "Ok"
        /\ gate_discards(has_reference_frame, nalu)
        /\ pli' = s.pli
        /\ written' = written \o s.msgs
        /\ fpc' = after_send(s.ok)
        /\ ferr' = IF fpc' = "failed" THEN "RtcpSend" ELSE ferr
        /\ reader' = IF fpc' = "failed" THEN f.reader ELSE wrap_buffer
        /\ ev' = WithSend([Quiet("discard") EXCEPT !.recv = "Ok", !.pushed = "Ok",
                              !.nalu = nalu, !.hadRef = has_reference_frame], s)
        /\ UNCHANGED <<has_reference_frame, queued>>
        /\ fifo_others

\* push says Ok and the unit is queued
FifoSubmit(kind, h, qOk, dqOk) ==
    LET p == fifo_payload(kind, h, rob.expected)
        r == push(reader, p).reader
        f == finish(r)
        nalu == SubSeq(r.buf, 1, f.n)
        ref == gate_passed(has_reference_frame)
    IN  /\ FifoRecv(p)
        /\ push(reader, p).res = "Ok"
        /\ ~gate_discards(has_reference_frame, nalu)
        /\ has_reference_frame' = gate_after_queue(ref, qOk)
        /\ queued' = Append(queued, nalu)
        /\ fpc' = after_queue(qOk, dqOk)
        /\ ferr' = IF fpc' = "failed" THEN "MediaEngine" ELSE ferr
        /\ reader' = submit_reader(r, dqOk)
        /\ ev' = [Quiet("submit") EXCEPT !.recv = "Ok", !.pushed = "Ok",
                     !.nalu = nalu, !.hadRef = has_reference_frame, !.queues = 1,
                     !.refAtQueue = ref, !.qok = qOk, !.dqok = dqOk]
        /\ UNCHANGED <<pli, written>>
        /\ fifo_others

\* the gate is closed, the depacketizer reset and a key frame asked for
FifoReset(e, writeOk) ==
    LET s == RateLimitedPli_send(pli, now, writeOk)
    IN  /\ has_reference_frame' = FALSE
        /\ reader' = after_error(reader)
        /\ pli' = s.pli
        /\ written' = written \o s.msgs
        /\ fpc' = after_send(s.ok)
        /\ ferr' = IF fpc' = "failed" THEN "RtcpSend" ELSE ferr
        /\ ev' = WithSend([e EXCEPT !.hadRef = has_reference_frame], s)
        /\ queued' = queued
        /\ fifo_others

\* push reports a hard error
FifoDepackError(kind, h, writeOk) ==
    LET p == fifo_payload(kind, h, rob.expected)
    IN  /\ FifoRecv(p)
        /\ push(reader, p).res = "Error"
        /\ FifoReset([Quiet("depack_error") EXCEPT !.recv = "Ok", !.pushed = "Error",
                          !.held = Len(reader.buf)], writeOk)

\* recv() returns BufferFull
FifoFull(writeOk) ==
    /\ fpc = "loop" /\ ~exit
    /\ IsFull(rob)
    /\ rob' = rob_full(rob)
    /\ rev' = [op |-> "BufferFull", seq |-> rob.expected, dup |-> FALSE,
               before |-> rob.entries]
    /\ FifoReset([Quiet("reorder_error") EXCEPT !.recv = "BufferFull"], writeOk)
    /\ dep' = dep

InitFifo ==
    /\ InitEnv
    /\ InitPump
    /\ boot = BootIdle
    /\ bev = BQuiet("init")
    /\ rob = RobNew
    /\ rev = RQuiet
    /\ seen = 0
    /\ queued = <<>>
    /\ dep = FifoNew
    /\ call = CallIdle
    /\ now = StartTime
    /\ track_ssrc = 1
    /\ pli = RateLimitedPli_new(track_ssrc, PLI_INTERVAL)
    /\ written = <<>>
    /\ has_reference_frame = FALSE
    /\ reader = wrap_buffer
    /\ fpc = "loop"
    /\ ferr = "none"
    /\ exit = FALSE
    /\ cpc = "pump"
    /\ firstSinceReset = "none"
    /\ gateWasReset = FALSE
    /\ queueFailed = FALSE
    /\ ev = Quiet("init")
    /\ result = "none"

NextFifo ==
    \/ \E s \in SeqNums : RobPull(s)
    \/ \E k \in FifoKinds, h \in FifoHdrs : FifoNeedMore(k, h)
    \/ \E k \in FifoKinds, h \in FifoHdrs, w \in BOOLEAN : FifoDiscard(k, h, w)
    \/ \E k \in FifoKinds, h \in FifoHdrs, q \in BOOLEAN, d \in BOOLEAN :
            FifoSubmit(k, h, q, d)
    \/ \E k \in FifoKinds, h \in FifoHdrs, w \in BOOLEAN : FifoDepackError(k, h, w)
    \/ \E w \in BOOLEAN : FifoFull(w)

SpecFifo == InitFifo /\ [][NextFifo]_vars

\* start_decoder once the peer is connected and the receiver taken
InitBoot ==
    /\ InitEnv
    /\ InitSession(Session(0, 0))
    /\ track_ssrc = 1
    /\ boot = BootNew(track_ssrc)
    /\ bev = BStep("init")
    /\ rob = RobIdle
    /\ rev = RQuiet
    /\ seen = 0
    /\ queued = <<>>
    /\ dep = DepIdle
    /\ call = CallIdle
    /\ now = StartTime
    /\ pli = RateLimitedPli_new(track_ssrc, PLI_INTERVAL)
    /\ written = <<>>
    /\ has_reference_frame = FALSE
    /\ reader = [buf |-> <<>>, open |-> FALSE, wrapped |-> FALSE]
    /\ fpc = "unspawned"
    /\ ferr = "none"
    /\ exit = FALSE
    /\ cpc = "boot"
    /\ firstSinceReset = "none"
    /\ gateWasReset = FALSE
    /\ queueFailed = FALSE
    /\ ev = Quiet("init")

NextBoot ==
    \/ \E e \in MediaPlayerEvent : signal_event(e)
    \/ PeerLeaves
    \/ BootPeerGone
    \/ \E o \in BuildOutcomes : BootBuild(o)
    \/ BootDestroyed
    \/ \E o \in {"Ok", "AttachThread", "NativeWindowCreate"} : BootSurfaceCreated(o)
    \/ BootSurfaceDestroyed
    \/ BootEmpty
    \/ \E u \in BootUnits, w \in BOOLEAN : BootUnit(u, w)
    \/ BootNeedMore
    \/ \E w \in BOOLEAN : BootLoss(w)
    \/ BootBenign
    \/ Spawn
    \/ \E d \in BOOLEAN : FeederStartCodec(d)
    \/ FeederCheck
    \/ \E p \in PipePayloads, w \in BOOLEAN : FeederDiscard(p, w)
    \/ \E p \in PipePayloads : FeederQueue(p, TRUE)
    \/ \E d \in BOOLEAN : FeederDequeue(d)
    \/ \E p \in Payloads : FeederNeedMore(p)
    \/ \E e \in ReorderBufferError, w \in BOOLEAN : FeederReorderError(e, w)
    \/ \E e \in ReorderBufferError : FeederBenign(e)

SpecBoot == InitBoot /\ [][NextBoot]_vars

\* some result of reorder_buffer.recv() is handled by the feeder
FeederRecv ==
    \/ \E p \in PipePayloads, w \in BOOLEAN : FeederDiscard(p, w)
    \/ \E p \in PipePayloads : FeederQueue(p, TRUE)
    \/ \E e \in PipeErrors, w \in BOOLEAN : FeederReorderError(e, w)
    \/ \E e \in PipeErrors : FeederBenign(e)

NextPump ==
    \/ \E e \in MediaPlayerEvent : signal_event(e)
    \/ PeerLeaves
    \/ Decode
    \/ \E d \in BOOLEAN : FeederStartCodec(d)
    \/ FeederCheck
    \/ FeederRecv
    \/ \E d \in BOOLEAN : FeederDequeue(d)
    \/ PumpPeerGone
    \/ PumpDestroyed
    \/ \E o \in SurfaceOutcomes : PumpSurfaceCreated(o)
    \/ PumpSurfaceDestroyed
    \/ PumpEmpty
    \/ \E ok \in BOOLEAN : PumpRelease(ok)
    \/ PumpFormatChanged
    \/ Join

SpecPump == InitPipeline /\ [][NextPump]_vars

\* The tasks are scheduled and the codec works whenever it can; every recv()
\* of the feeder returns (with a payload or an error).  Nothing is assumed of
\* the platform and the peer.
FairPump ==
    /\ WF_vars(Decode)
    /\ WF_vars(\E d \in BOOLEAN : FeederStartCodec(d))
    /\ WF_vars(FeederCheck)
    /\ WF_vars(FeederRecv)
    /\ WF_vars(\E d \in BOOLEAN : FeederDequeue(d))
    /\ WF_vars(PumpPeerGone)
    /\ WF_vars(PumpDestroyed)
    /\ WF_vars(\E o \in SurfaceOutcomes : PumpSurfaceCreated(o))
    /\ WF_vars(PumpSurfaceDestroyed)
    /\ WF_vars(PumpEmpty)
    /\ WF_vars(\E ok \in BOOLEAN : PumpRelease(ok))
    /\ WF_vars(PumpFormatChanged)
    /\ WF_vars(Join)

SpecPumpFair == InitPipeline /\ [][NextPump]_vars /\ FairPump

\* the whole of start_decoder: the bootstrap, then the feeder and the pump,
\* on a stream that opens with a key frame and loses nothing
NextLife ==
    \/ \E e \in MediaPlayerEvent : signal_event(e)
    \/ PeerLeaves
    \/ BootPeerGone
    \/ \E o \in BuildOutcomes : BootBuild(o)
    \/ BootDestroyed
    \/ \E o \in {"Ok", "AttachThread", "NativeWindowCreate"} : BootSurfaceCreated(o)
    \/ BootSurfaceDestroyed
    \/ BootEmpty
    \/ \E u \in BootUnits, w \in BOOLEAN : BootUnit(u, w)
    \/ BootNeedMore
    \/ \E w \in BOOLEAN : BootLoss(w)
    \/ BootBenign
    \/ Spawn
    \/ Decode
    \/ \E d \in BOOLEAN : FeederStartCodec(d)
    \/ FeederCheck
    \/ \E p \in PipePayloads : FeederQueue(p, TRUE)
    \/ \E e \in PipeErrors : FeederBenign(e)
    \/ \E d \in BOOLEAN : FeederDequeue(d)
    \/ PumpPeerGone
    \/ PumpDestroyed
    \/ \E o \in SurfaceOutcomes : PumpSurfaceCreated(o)
    \/ PumpSurfaceDestroyed
    \/ PumpEmpty
    \/ \E ok \in BOOLEAN : PumpRelease(ok)
    \/ PumpFormatChanged
    \/ Join

SpecLife == InitBoot /\ [][NextLife]_vars

(* ------------ the reorder buffers of the bootstrap and the feeder ------ *)

\* create_media_engine reads the track through a BufferedTrackRemote of its
\* own, a local that is dropped when it returns; the feeder task then makes a
\* new one on the same track.  The new buffer starts like any other: nothing
\* expected, nothing held.  What was read from the track stays read.
rob_handoff(r) ==
    [RobNew EXCEPT !.arrived = r.arrived, !.delivered = r.delivered,
                   !.errors = r.errors, !.gen = 1,
                   !.left = r.expected, !.lost = r.window]

\* create_media_engine returns from the top of its loop, between two calls of
\* recv(), and start_decoder spawns the feeder
RobHandoff ==
    /\ rob.gen = 0
    /\ rev.op \in {"none", "deliver", "BufferFull"}
    /\ rob' = rob_handoff(rob)
    /\ rev' = [op |-> "handoff", seq |-> rob.expected, dup |-> FALSE,
               before |-> rob.entries]
    /\ robFrame

NextHandoff ==
    \/ \E s \in SeqNums : RobPull(s)
    \/ RobDeliver
    \/ RobFull
    \/ RobHandoff

SpecHandoff == InitReorder /\ [][NextHandoff]_vars

(* ------------- the feeder and the input buffers of the codec ----------- *)

\* the feeder on a codec whose queue_input_buffer and dequeue_input_buffer may
\* fail, with the pump releasing what the codec puts out; the peer stays
\* connected and the platform publishes nothing
NextBuffers ==
    \/ Decode
    \/ \E d \in BOOLEAN : FeederStartCodec(d)
    \/ FeederCheck
    \/ \E p \in Payloads : FeederNeedMore(p)
    \/ \E p \in Payloads, w \in BOOLEAN : FeederDiscard(p, w)
    \/ \E p \in Payloads, q \in BOOLEAN : FeederQueue(p, q)
    \/ \E p \in Payloads, w \in BOOLEAN : FeederDepackError(p, w)
    \/ \E e \in ReorderBufferError, w \in BOOLEAN : FeederReorderError(e, w)
    \/ \E e \in ReorderBufferError : FeederBenign(e)
    \/ \E d \in BOOLEAN : FeederDequeue(d)
    \/ PumpEmpty
    \/ \E ok \in BOOLEAN : PumpRelease(ok)
    \/ PumpFormatChanged

SpecBuffers == InitPipeline /\ [][NextBuffers]_vars

(* --------------- start_decoder up to the bootstrap (calls) ------------- *)

\* AndroidDecoderBuilder::build spawns one start_decoder per negotiated
\* track, all of them on the one singleton.  `call` follows these calls from
\* their first line to the bootstrap; the peer connection is the one of
\* envVars and walks through the states of RTCPeerConnectionState.
Calls == 1..NumCalls

\* the mime types a track can come with, as webrtc names them
MimeStrs == {"video/H264", "VIDEO/AVC", "video/H265", "video/flexfec"}

\* str::eq_ignore_ascii_case compares the two strings with A-Z folded to a-z
to_ascii_lowercase(s) ==
    CASE s = "video/H264" -> "video/h264"
      [] s = "VIDEO/AVC" -> "video/avc"
      [] s = "video/H265" -> "video/h265"
      [] s = "video/AV1" -> "video/av1"
      [] s = "video/VP8" -> "video/vp8"
      [] s = "audio/PCMA" -> "audio/pcma"
      [] s = "audio/PCMU" -> "audio/pcmu"
      [] OTHER -> s

eq_ignore_ascii_case(a, b) == to_ascii_lowercase(a) = to_ascii_lowercase(b)

\* the rows of MimeType::from_str, in the order the code tries them
MimeRows ==
    << <<"audio/g711-alaw", "audio/PCMA", "AudioPcma">>,
       <<"audio/g711-mlaw", "audio/PCMU", "AudioPcmu">>,
       <<"audio/opus", "audio/opus", "AudioOpus">>,
       <<"video/av01", "video/AV1", "VideoAv1">>,
       <<"video/avc", "video/H264", "VideoH264">>,
       <<"video/hevc", "video/H265", "VideoH265">>,
       <<"video/x-vnd.on2.vp8", "video/VP8", "VideoVp8">> >>

\* MimeType::from_str: the first row one of whose names matches, or Err(())
MimeType_from_str(s) ==
    LET hits == {i \in DOMAIN MimeRows :
                    \/ eq_ignore_ascii_case(s, MimeRows[i][1])
                    \/ eq_ignore_ascii_case(s, MimeRows[i][2])}
    IN  IF hits = {} THEN None
        ELSE Some(MimeRows[CHOOSE i \in hits : \A j \in hits : i <= j][3])

\* the codec maps AndroidDecoderBuilder::new can end with: a decoder name
\* for none, one or two of the video types it asks the platform about
CodecMaps == {{}, {"VideoH264"}, {"VideoH264", "VideoH265"}}

\* one start_decoder just spawned: in the wait for Connected
CallTask(mime) == [pc |-> "wait", mime |-> mime, type |-> "none", err |-> "none"]

\* receiver is the Option in the singleton's mutex (TRUE for Some), given
\* lists the calls get_event_receiver answered with Some, made counts the
\* calls that went on into create_media_engine
CallNew(mimes, map) ==
    [pc |-> "calls", task |-> [i \in Calls |-> CallTask(mimes[i])],
     codec_map |-> map, receiver |-> TRUE, given |-> <<>>, made |-> 0,
     last |-> [op |-> "none", i |-> 0, had |-> TRUE]]

callFrame ==
    UNCHANGED <<feederVars, pumpVars, result, bootVars, robVars, seen, queued, dep>>

\* the last step of call i
CallStep(op, i) == [op |-> op, i |-> i, had |-> call.receiver]

CallGoes(i, pc, type, err, op) ==
    [call EXCEPT !.task[i].pc = pc, !.task[i].type = type,
                 !.task[i].err = err, !.last = CallStep(op, i)]

\* RTCPeerConnectionState: the moves of a peer connection; Closed is final
PeerMoves ==
    {<<"New", "Connecting">>, <<"Connecting", "Connected">>,
     <<"Connecting", "Failed">>, <<"Connected", "Disconnected">>,
     <<"Disconnected", "Connected">>, <<"Disconnected", "Failed">>,
     <<"New", "Closed">>, <<"Connecting", "Closed">>,
     <<"Connected", "Closed">>, <<"Disconnected", "Closed">>,
     <<"Failed", "Closed">>}

PeerMove(to) ==
    /\ call.pc = "calls"
    /\ <<peer_state, to>> \in PeerMoves
    /\ peer_state' = to
    /\ UNCHANGED <<events, published, call>>
    /\ callFrame

\* one round of `while peer.connection_state() != Connected { sleep }`: the
\* wait leaves its loop on Connected only; every other state, and every event
\* published meanwhile, sends it to sleep for another 10 ms
CallWait(i) ==
    /\ call.pc = "calls"
    /\ call.task[i].pc = "wait"
    /\ call' = IF peer_state # "Connected"
               THEN [call EXCEPT !.last = CallStep("sleep", i)]
               ELSE CallGoes(i, "codec", "none", "none", "wait")
    /\ UNCHANGED envVars
    /\ callFrame

\* MimeType::from_str(..).map_err(|_| UnknownMimeType)?
CallMime(i) ==
    /\ call.pc = "calls"
    /\ call.task[i].pc = "codec"
    /\ LET m == MimeType_from_str(call.task[i].mime)
       IN  call' = IF m = None
                   THEN CallGoes(i, "returned", "none", "UnknownMimeType", "mime")
                   ELSE CallGoes(i, "name", m[1], "none", "mime")
    /\ UNCHANGED envVars
    /\ callFrame

\* codec_map.get(&mime_type).ok_or(NoDecoderFound)?
CallName(i) ==
    /\ call.pc = "calls"
    /\ call.task[i].pc = "name"
    /\ call' = IF call.task[i].type \in call.codec_map
               THEN CallGoes(i, "receiver", call.task[i].type, "none", "name")
               ELSE CallGoes(i, "returned", call.task[i].type, "NoDecoderFound", "name")
    /\ UNCHANGED envVars
    /\ callFrame

\* NativeLibSingleton::get_event_receiver: lock_guard.take() leaves None
get_event_receiver_clones(r) == [got |-> r, left |-> r]

get_event_receiver(r) == [got |-> r, left |-> FALSE]

\* singleton.get_event_receiver().ok_or(FailedToGetReceiver)?
CallReceiver(i) ==
    /\ call.pc = "calls"
    /\ call.task[i].pc = "receiver"
    /\ LET g == get_event_receiver(call.receiver)
           c == IF g.got
                THEN CallGoes(i, "engine", call.task[i].type, "none", "receiver")
                ELSE CallGoes(i, "returned", call.task[i].type, "FailedToGetReceiver",
                              "receiver")
       IN  call' = [c EXCEPT !.receiver = g.left,
                             !.given = IF g.got THEN Append(@, i) ELSE @]
    /\ UNCHANGED envVars
    /\ callFrame

\* `match mime_type`: create_media_engine for H.264, todo!() for the rest
CallEngine(i) ==
    /\ call.pc = "calls"
    /\ call.task[i].pc = "engine"
    /\ call' = IF call.task[i].type = "VideoH264"
               THEN [CallGoes(i, "bootstrap", call.task[i].type, "none", "engine")
                        EXCEPT !.made = @ + 1]
               ELSE CallGoes(i, "panicked", call.task[i].type, "none", "engine")
    /\ UNCHANGED envVars
    /\ callFrame

InitStart ==
    /\ peer_state = "New"
    /\ events = <<>>
    /\ published = 0
    /\ InitPump
    /\ boot = BootIdle
    /\ bev = BQuiet("init")
    /\ rob = RobIdle
    /\ rev = RQuiet
    /\ seen = 0
    /\ queued = <<>>
    /\ dep = DepIdle
    /\ \E mimes \in [Calls -> MimeStrs] : \E map \in CodecMaps :
           call = CallNew(mimes, map)
    /\ now = StartTime
    /\ track_ssrc = 1
    /\ pli = RateLimitedPli_new(track_ssrc, PLI_INTERVAL)
    /\ written = <<>>
    /\ has_reference_frame = FALSE
    /\ reader = [buf |-> <<>>, open |-> FALSE, wrapped |-> FALSE]
    /\ fpc = "unspawned"
    /\ ferr = "none"
    /\ exit = FALSE
    /\ cpc = "start"
    /\ firstSinceReset = "none"
    /\ gateWasReset = FALSE
    /\ queueFailed = FALSE
    /\ ev = Quiet("init")

NextStart ==
    \/ \E to \in {"Connecting", "Connected", "Disconnected", "Failed", "Closed"} :
           PeerMove(to)
    \/ signal_event([type |-> "MainActivityDestroyed", surface |-> 0])
    \/ \E i \in Calls : CallWait(i)
    \/ \E i \in Calls : CallMime(i)
    \/ \E i \in Calls : CallName(i)
    \/ \E i \in Calls : CallReceiver(i)
    \/ \E i \in Calls : CallEngine(i)

SpecStart == InitStart /\ [][NextStart]_vars

\* every call is scheduled again and again; nothing is assumed of the peer
\* and of the platform
FairStart ==
    /\ \A i \in Calls : WF_vars(CallWait(i))
    /\ \A i \in Calls : WF_vars(CallMime(i))
    /\ \A i \in Calls : WF_vars(CallName(i))
    /\ \A i \in Calls : WF_vars(CallReceiver(i))
    /\ \A i \in Calls : WF_vars(CallEngine(i))

SpecStartFair == InitStart /\ [][NextStart]_vars /\ FairStart

(* ------------------ H264Decoder fed with payloads on its own ----------- *)

\* a second parsable sequence parameter set and a second picture parameter set
SPS_OK2 == <<103, ParsableSps, 3>>

PPS2 == <<104, 8>>

ConfigNals == {SPS_OK, SPS_OK2, SPS_BAD, PPS, PPS2, IDR}

\* the NAL units of one payload
ConfigPayloads == UNION {[1..n -> ConfigNals] : n \in 0..MaxNals}

\* a decoder as create_media_engine makes it; sps and pps are the last
\* parameter sets the loop of read_payload took in, nals and ok the last call
ConfigNew ==
    [pc |-> "h264", decoder |-> H264Decoder_default, sps |-> None, pps |-> None,
     nals |-> <<>>, ok |-> TRUE, reads |-> 0]

\* the NAL units of a payload the loop reaches: those before the first that
\* is neither SPS nor PPS
RECURSIVE Reached(_)
Reached(nals) ==
    IF nals = <<>> \/ Head(nals)[1] % 32 \notin {NALU_TYPE_SPS, NALU_TYPE_PPS}
    THEN <<>>
    ELSE <<Head(nals)>> \o Reached(Tail(nals))

\* the last of these NAL units that is a usable parameter set of type t
RECURSIVE LastSet(_, _, _)
LastSet(nals, t, before) ==
    IF nals = <<>> THEN before
    ELSE LastSet(Tail(nals), t,
                 IF Head(nals)[1] % 32 = t /\
                        (t = NALU_TYPE_PPS \/ Head(nals)[2] = ParsableSps)
                 THEN Some(Head(nals)) ELSE before)

\* decoder.read_payload(payload) on the unit made of these NAL units
ConfigRead(nals) ==
    /\ call.pc = "h264"
    /\ call.reads < MaxReads
    /\ LET rd == read_payload(call.decoder, Unit(nals))
       IN  call' = [call EXCEPT !.decoder = rd.decoder, !.ok = rd.ok, !.nals = nals,
                                !.sps = LastSet(Reached(nals), NALU_TYPE_SPS, @),
                                !.pps = LastSet(Reached(nals), NALU_TYPE_PPS, @),
                                !.reads = @ + 1]
    /\ UNCHANGED envVars
    /\ callFrame

InitConfig ==
    /\ InitEnv
    /\ InitPump
    /\ boot = BootIdle
    /\ bev = BQuiet("init")
    /\ rob = RobIdle
    /\ rev = RQuiet
    /\ seen = 0
    /\ queued = <<>>
    /\ dep = DepIdle
    /\ call = ConfigNew
    /\ now = StartTime
    /\ track_ssrc = 1
    /\ pli = RateLimitedPli_new(track_ssrc, PLI_INTERVAL)
    /\ written = <<>>
    /\ has_reference_frame = FALSE
    /\ reader = [buf |-> <<>>, open |-> FALSE, wrapped |-> FALSE]
    /\ fpc = "start"
    /\ ferr = "none"
    /\ exit = FALSE
    /\ cpc = "pump"
    /\ firstSinceReset = "none"
    /\ gateWasReset = FALSE
    /\ queueFailed = FALSE
    /\ ev = Quiet("init")

NextConfig == \E nals \in ConfigPayloads : ConfigRead(nals)

SpecConfig == InitConfig /\ [][NextConfig]_vars

(* ---------------- util::gcd and the aspect ratio of the player --------- *)

\* i32::MAX
I32_MAX == 2147483647

\* `x << 1` on an i32: the bit that leaves at the top is lost and bit 30
\* becomes the sign
shl1(x) ==
    IF x >= 1073741824 THEN 2 * (x - 1073741824) + (-I32_MAX - 1)
    ELSE IF x < -1073741824 THEN 2 * ((x + I32_MAX) + 1)
    ELSE 2 * x

\* `x << n` on an i32
RECURSIVE shl(_, _)
shl(x, n) == IF n = 0 THEN x ELSE shl(shl1(x), n - 1)

\* i32::trailing_zeros of a number that is not zero
RECURSIVE trailing_zeros(_)
trailing_zeros(x) == IF x % 2 = 1 THEN 0 ELSE 1 + trailing_zeros(x \div 2)

\* 2^n
RECURSIVE Pow2(_)
Pow2(n) == IF n = 0 THEN 1 ELSE 2 * Pow2(n - 1)

\* `x >> n` on an i32 that is not negative
shr(x, n) == x \div Pow2(n)

\* a gcd that forgets the factors of two the operands share
gcd_return_odd(u, k) == u

\* `return u << k`
gcd_return(u, k) == shl(u, k)

\* the widths and heights tried: the small ones, some video sizes and the
\* ends of the range of an i32 that is not negative
Dims == (0..MaxDim) \cup {720, 1080, 1280, 1920, 1073741824, 2147483646, 2147483647}

\* set_media_player_aspect_ratio(env, width, height) at its call of gcd
GcdNew(w, h) ==
    [pc |-> "gcd", width |-> w, height |-> h, u |-> w, v |-> h, k |-> 0,
     divisor |-> -1, passed |-> <<>>, rounds |-> 0]

\* gcd up to its loop: the two early returns, then both operands are made odd
GcdEnter ==
    /\ call.pc = "gcd"
    /\ call' = IF call.u = 0 THEN [call EXCEPT !.pc = "returned", !.divisor = call.v]
               ELSE IF call.v = 0 THEN [call EXCEPT !.pc = "returned", !.divisor = call.u]
               ELSE LET i == trailing_zeros(call.u)
                        j == trailing_zeros(call.v)
                    IN  [call EXCEPT !.pc = "loop", !.u = shr(call.u, i),
                                     !.v = shr(call.v, j),
                                     !.k = IF i <= j THEN i ELSE j]
    /\ UNCHANGED envVars
    /\ callFrame

\* one round of the loop of gcd
GcdLoop ==
    /\ call.pc = "loop"
    /\ LET u == IF call.u > call.v THEN call.v ELSE call.u
           w == IF call.u > call.v THEN call.u ELSE call.v
           v == w - u            \* `v -= u` with 0 < u <= v: no overflow
       IN  call' = IF v = 0
                   THEN [call EXCEPT !.pc = "returned", !.u = u, !.v = v,
                                     !.divisor = gcd_return(u, call.k),
                                     !.rounds = @ + 1]
                   ELSE [call EXCEPT !.u = u, !.v = shr(v, trailing_zeros(v)),
                                     !.rounds = @ + 1]
    /\ UNCHANGED envVars
    /\ callFrame

\* `(width / divisor, height / divisor)` and the call of
\* setMediaPlayerAspectRatio; the division by a divisor of 0 panics
AspectRatio ==
    /\ call.pc = "returned"
    /\ call' = IF call.divisor = 0 THEN [call EXCEPT !.pc = "panicked"]
               ELSE [call EXCEPT !.pc = "passed",
                                 !.passed = <<call.width \div call.divisor,
                                              call.height \div call.divisor>>]
    /\ UNCHANGED envVars
    /\ callFrame

InitGcd ==
    /\ InitEnv
    /\ InitPump
    /\ boot = BootIdle
    /\ bev = BQuiet("init")
    /\ rob = RobIdle
    /\ rev = RQuiet
    /\ seen = 0
    /\ queued = <<>>
    /\ dep = DepIdle
    /\ \E w \in Dims, h \in Dims : call = GcdNew(w, h)
    /\ now = StartTime
    /\ track_ssrc = 1
    /\ pli = RateLimitedPli_new(track_ssrc, PLI_INTERVAL)
    /\ written = <<>>
    /\ has_reference_frame = FALSE
    /\ reader = [buf |-> <<>>, open |-> FALSE, wrapped |-> FALSE]
    /\ fpc = "start"
    /\ ferr = "none"
    /\ exit = FALSE
    /\ cpc = "pump"
    /\ firstSinceReset = "none"
    /\ gateWasReset = FALSE
    /\ queueFailed = FALSE
    /\ ev = Quiet("init")

NextGcd ==
    \/ GcdEnter
    \/ GcdLoop
    \/ AspectRatio

SpecGcd == InitGcd /\ [][NextGcd]_vars

(* ------------------------------ properties ----------------------------- *)

\* the NAL type of the leading NAL unit of an access unit, as H.264 defines it
LeadingType(nalu) == nalu[5] % 32

IsIdrUnit(nalu) == Len(nalu) >= 5 /\ LeadingType(nalu) = 5

LossErrors == {"HeaderParsingError", "TrackRemoteReadError", "BufferFull"}

Dist(a, b) == IF a >= b THEN a - b ELSE b - a

\* C1: queue_input_buffer is only called while has_reference_frame is true;
\* has_reference_frame turns true only in a step that finished an access unit
\* whose leading NAL type is 5 while the flag was false; and the first unit
\* queued at start and after every reset of the gate is an IDR unit.
C1_GateInvariant ==
    /\ [](ev.queues = 1 => ev.refAtQueue)
    /\ [][(~has_reference_frame /\ has_reference_frame') =>
             (ev'.pushed = "Ok" /\ ~ev'.hadRef /\ IsIdrUnit(ev'.nalu))]_vars
    /\ [](firstSinceReset # "other")

\* C1 witness: after a reset of the gate an IDR unit opened it and was queued
C1_Witness ==
    /\ gateWasReset
    /\ ev.queues = 1 /\ ~ev.hadRef /\ IsIdrUnit(ev.nalu)
    /\ has_reference_frame /\ firstSinceReset = "idr"

C3_ResetOnLoss ==
    (ev.pushed = "Error" \/ ev.recv \in LossErrors) =>
        /\ ~has_reference_frame
        /\ reader = wrap_buffer
        /\ ev.sends = 1

\* C3 witness: BufferFull arrived while streaming; the gate closed and one PLI
\* reached the peer
C3_Witness ==
    /\ ev.recv = "BufferFull" /\ ev.hadRef
    /\ ~has_reference_frame /\ ev.wrote = 1

\* C4 as stated: after a queue_input_buffer call that returned an error the
\* gate is closed.
C4_FailedQueueClosesGate ==
    (ev.queues = 1 /\ ~ev.qok) => ~has_reference_frame

\* C5: no two PLI messages are written to the peer within PLI_INTERVAL of
\* each other, whatever the number and the times of the send calls.
C5_NoTwoWithinInterval ==
    \A i, j \in 1..Len(written) :
        i # j => Dist(written[i].at, written[j].at) > PLI_INTERVAL

\* C5 witness: two messages have been written and a further call was suppressed
C5_Witness ==
    /\ Len(written) >= 2
    /\ ev.sends = 1 /\ ev.attempts = 0

\* C6: a send call made more than PLI_INTERVAL after the last recorded send,
\* and the first send call after construction, calls write_rtcp exactly once,
\* and when the write succeeds one message reaches the peer and the time of
\* the call becomes last_pli_time.
C6_SendWhenDue ==
    (ev.sends = 1 /\ (now - ev.lastBefore > PLI_INTERVAL \/ ev.lastBefore = UNIX_EPOCH)) =>
        /\ ev.attempts = 1
        /\ ev.sendOk =>
              /\ ev.wrote = 1
              /\ pli.last_pli_time = now
              /\ Len(written) > 0 /\ written[Len(written)].at = now

\* C6 witness: a second message was written more than the interval after the first
C6_Witness ==
    /\ ev.sends = 1 /\ ev.wrote = 1
    /\ ev.lastBefore # UNIX_EPOCH
    /\ now - ev.lastBefore > PLI_INTERVAL

\* C7 as stated: send does nothing exactly when the time since the last send
\* is below the interval (so it writes when the two are equal), and a written
\* message carries the SSRC of the track.
C7_NoOpIffBelow ==
    ev.sends = 1 =>
        /\ (ev.attempts = 0) <=> (now - ev.lastBefore < PLI_INTERVAL)
        /\ ev.wrote = 1 => written[Len(written)].media_ssrc = track_ssrc

\* C7 amended: send does nothing exactly when the time since the last send is
\* not above the interval (equal to it included), and a written message
\* carries the SSRC of the track.
C7_NoOpIffNotAbove ==
    ev.sends = 1 =>
        /\ (ev.attempts = 0) <=> (now - ev.lastBefore <= PLI_INTERVAL)
        /\ ev.wrote = 1 => written[Len(written)].media_ssrc = track_ssrc

\* C7 witness: a send call exactly one interval after the last write did nothing
C7_Witness ==
    /\ ev.sends = 1 /\ ev.attempts = 0
    /\ now - ev.lastBefore = PLI_INTERVAL

\* C8: a send call whose write fails returns the error and leaves
\* last_pli_time as it was, and the send call that follows it calls
\* write_rtcp again.
C8_FailedWriteKeepsTime ==
    /\ []((ev.sends = 1 /\ ev.attempts = 1 /\ ev.wrote = 0) =>
             (~ev.sendOk /\ pli.last_pli_time = ev.lastBefore))
    /\ [][(ev.sends = 1 /\ ~ev.sendOk /\ ev'.sends = 1) => ev'.attempts = 1]_vars

\* C8 witness: a write failed after an earlier one had succeeded
C8_Witness ==
    /\ ev.sends = 1 /\ ~ev.sendOk
    /\ ev.lastBefore # UNIX_EPOCH

\* C9 as stated: a failed RateLimitedPli::send inside the feeder does not end
\* the feeder loop.
C9_FailedSendKeepsFeeder ==
    (ev.sends = 1 /\ ~ev.sendOk) => fpc = "loop"

\* C10: when queue_input_buffer returns an error (and the next input buffer
\* is dequeued) the feeder is back at the top of its loop, without an error,
\* with the depacketizer wrapped around the fresh buffer.
C10_FailedQueueKeepsFeeder ==
    (ev.queues = 1 /\ ~ev.qok /\ ev.dqok) =>
        /\ fpc = "loop"
        /\ ferr = "none"
        /\ reader = wrap_buffer

\* C10 witness: a unit was queued successfully after an earlier queue failure
C10_Witness ==
    /\ queueFailed
    /\ ev.queues = 1 /\ ev.qok
    /\ fpc = "loop"


(* --------------------------- the render pump --------------------------- *)

\* C11: every release_output_buffer call made after the pump has handled
\* SurfaceDestroyed, and before it handles a SurfaceCreated, releases the buffer
\* with render = false; handling SurfaceCreated binds the decoder output to
\* the surface of the event, and the releases that follow use render = true.
C11_RenderFollowsSurface ==
    /\ pev.op = "release" =>
          /\ pev.releases = 1
          /\ pev.render = (lastSurface # "destroyed")
    /\ pev.op = "surface_created" =>
          /\ bound_surface = pev.surface
          /\ render

\* a buffer is released and rendered on a new surface that came after a
\* SurfaceDestroyed
C11_Witness ==
    /\ pev.op = "release"
    /\ pev.render
    /\ lastSurface = "recreated"
    /\ bound_surface = 2

\* C12: whenever start_decoder has returned after the feeder was spawned, the
\* exit flag is set and the feeder task has ended.
C12_ReturnStopsFeeder ==
    cpc = "returned" => (exit /\ fpc \in {"exited", "failed"})

\* C13: once the pump has received MainActivityDestroyed, start_decoder
\* eventually returns ApplicationClosed, whatever the feeder was doing.
C13_DestroyedLeadsToReturn ==
    (why = "destroyed") ~> (cpc = "returned" /\ result = "ApplicationClosed")

\* C14: a pipeline that ends because the peer left the Connected state
\* returns WebRtcDisconnected, one that ends because of MainActivityDestroyed
\* returns ApplicationClosed.
C14_TerminalErrorKind ==
    /\ (cpc = "returned" /\ why = "peer") => result = "WebRtcDisconnected"
    /\ (cpc = "returned" /\ why = "destroyed") => result = "ApplicationClosed"

(* ---------------------------- the bootstrap ---------------------------- *)

\* the calls of a session that was created, initialized and configured
FullSession == <<"create_by_name", "initialize", "submit_codec_config">>

\* C15: create_media_engine creates a session only while it holds a native
\* window, the last surface event it consumed being SurfaceCreated, and while
\* the resolution and the codec configuration are known; consuming
\* SurfaceDestroyed clears the window.
C15_BuildNeedsWindowAndConfig ==
    /\ boot.session # <<>> =>
          /\ boot.native_window # 0
          /\ boot.lastSurf = "SurfaceCreated"
          /\ boot.decoder.resolution # None
          /\ boot.decoder.codec_config # None
    /\ bev.op = "SurfaceDestroyed" => boot.native_window = 0

\* a session is built on a window once an SPS and a PPS have been read
C15_Witness ==
    /\ boot.session = FullSession
    /\ boot.native_window = 2
    /\ boot.decoder.codec_config = Some(Unit(<<SPS_OK, PPS>>))

\* C16: the session create_media_engine returns has been initialized and has
\* then been given the codec configuration, and the feeder queues frame data
\* only to such a session.
C16_ConfigBeforeFrames ==
    /\ (boot.pc = "returned" /\ boot.result = "Ok") => boot.session = FullSession
    /\ fpc # "unspawned" => boot.session = FullSession
    /\ ev.queues > 0 => boot.session = FullSession

\* the feeder has queued a first frame to the configured session
C16_Witness ==
    /\ ev.queues = 1
    /\ boot.session = FullSession

\* the errors of the platform and of the peer that end the bootstrap
BootFailures == {"AttachThread", "NativeWindowCreate", "SetAspectRatio",
                 "NoDecoderFound", "MediaEngine", "RtcpSend"}

Underivable(u) ==
    \/ u = <<>>
    \/ \E i \in DOMAIN nalu_chunks(u) :
          LET nalu == nalu_chunks(u)[i]
              t == bit_and(nalu[1], NALU_TYPE_BITMASK)
          IN  \/ t \notin {NALU_TYPE_SPS, NALU_TYPE_PPS}
              \/ t = NALU_TYPE_SPS /\ get_resolution(nalu) = None

\* C18: every unit finished during bootstrap from which the stream
\* parameters cannot be derived triggers one RateLimitedPli::send call, and no
\* session is created.
C18_ParseFailureSends ==
    (bev.op = "unit" /\ Underivable(bev.unit)) =>
        (bev.sends = 1 /\ boot.session = <<>>)

(* --------------------------- the reorder buffer ------------------------ *)

\* C19: the sequence numbers returned by successive recv() calls are strictly
\* increasing in the wraparound-aware order, so none is returned twice.
C19_DeliveredAscending ==
    \A i, j \in DOMAIN rob.delivered :
        i < j => seq_diff(rob.delivered[j], rob.delivered[i]) > 0

\* packets arrived reordered and duplicated across 65535 -> 0 and were
\* returned in order
C19_Witness ==
    /\ rob.arrived = <<65535, 1, 1, 0>>
    /\ rob.delivered = <<65535, 0, 1>>

\* the n sequence numbers from b on, ascending
Run(b, n) == [k \in 1..n |-> (b + k - 1) % SeqMod]

\* arr holds each sequence number of the run of its length from b exactly once
ArrivalOf(arr, b) ==
    \A k \in DOMAIN arr : \E i \in DOMAIN arr : arr[i] = Run(b, Len(arr))[k]

\* recv() has returned all it can without reading further packets
Drained == rob.expected \notin rob.window

Gaps(d) == {i \in 1..(Len(d) - 1) : seq_diff(d[i + 1], d[i]) # 1}

\* C21: recv() passes over a missing sequence number only by returning
\* BufferFull, once for each gap and with the window full; it then goes on
\* with the oldest packet it holds, and no held packet is left behind.
C21_GapReportedOnce ==
    /\ rob.errors = Cardinality(Gaps(rob.delivered))
                        + (IF rev.op = "BufferFull" THEN 1 ELSE 0)
    /\ rev.op = "BufferFull" =>
          /\ rev.before = WindowCap
          /\ rob.expected \in rob.window
    /\ \A t \in rob.window : seq_diff(t, rob.expected) >= 0

\* BufferFull was returned for one gap and the oldest held packet came next
C21_Witness ==
    /\ rob.errors = 1
    /\ rev.op = "deliver"
    /\ Len(rob.delivered) = 2
    /\ seq_diff(rob.delivered[2], rob.delivered[1]) = 2

\* C22: the window never holds more than its capacity, a packet whose
\* sequence number is already in the window adds no entry, and no sequence
\* number is returned twice.
C22_WindowBounded ==
    /\ rob.entries <= WindowCap
    /\ rob.entries = Cardinality(rob.window)
    /\ (rev.op = "pull" /\ rev.dup) => rob.entries = rev.before
    /\ \A i, j \in DOMAIN rob.delivered :
          rob.delivered[i] = rob.delivered[j] => i = j

\* a packet arrived a second time while it was waiting in the window
C22_Witness ==
    /\ rev.op = "pull"
    /\ rev.dup
    /\ rob.entries = 2

\* a stream that crosses 65535 -> 0, in order and with 0 ahead of 65535
CrossingArrivals == {<<65534, 65535, 0, 1>>, <<65534, 0, 65535, 1>>}

\* C23: sequence numbers are ordered by the sign of their difference as a
\* signed 16-bit value: 0 is newer than 65535, and a stream that crosses
\* 65535 -> 0 is returned as 65534, 65535, 0, 1 with no error.
C23_WrapAroundOrder ==
    /\ seq_diff(0, 65535) = 1
    /\ seq_diff(65535, 0) = -1
    /\ (rob.arrived \in CrossingArrivals /\ Drained) =>
          (rob.delivered = <<65534, 65535, 0, 1>> /\ rob.errors = 0)

\* 0 arrived before 65535 and was returned after it
C23_Witness ==
    /\ rob.arrived = <<65534, 0, 65535, 1>>
    /\ rob.delivered = <<65534, 65535, 0, 1>>

(* ----------------------------- the depacketizer ------------------------ *)

\* the bytes finish() hands over after one push of the unit in one payload
whole(u) ==
    LET r == push(wrap_buffer, single_payload(u)).reader
    IN  SubSeq(r.buf, 1, finish(r).n)

\* the unit and its delimiter fit into the input buffer
UnitFits(u) == Len(NALU_DELIMITER) + Len(u) <= InputBufCap

\* C24: pushing the fragments of a unit in order returns NeedMoreInput for
\* every fragment but the last and Ok for the last, and finish() then yields
\* exactly the bytes that one push of the same unit in a single payload
\* yields; a unit that comes in one payload returns Ok on its first push.
C24_FragmentsEqualWhole ==
    (dep.pc # "idle" /\ UnitFits(dep.unit)) =>
        /\ dep.last \in {"start", "mid"} => (dep.res = "NeedMoreInput" /\ dep.todo # <<>>)
        /\ dep.last \in {"end", "single"} => (dep.res = "Ok" /\ dep.todo = <<>>)
        /\ dep.pc = "done" =>
              /\ dep.out = whole(dep.unit)
              /\ dep.out = NALU_DELIMITER \o dep.unit
              /\ dep.n = Len(dep.out)

C24_Witness ==
    /\ dep.pc = "done"
    /\ Cardinality(dep.cuts) = 2
    /\ dep.last = "end"
    /\ dep.out = NALU_DELIMITER \o <<101, 1, 2>>

\* C25: when push reports a hard error the feeder queues nothing, and the
\* depacketizer is wrapped again at the start of the input buffer, open for no
\* unit and holding none of the bytes accumulated so far: the next unit is
\* assembled from an empty buffer.
C25_ErrorDropsAccumulated ==
    ev.pushed = "Error" =>
        /\ ev.queues = 0
        /\ ev.nalu = <<>>
        /\ reader = wrap_buffer
        /\ reader.buf = <<>> /\ ~reader.open

C25_Witness ==
    /\ ev.arm = "depack_error"
    /\ ev.pushed = "Error"
    /\ ev.held > 0
    /\ reader.buf = <<>>

\* C26: the bytes written for one access unit never exceed the capacity of
\* the wrapped buffer; a unit that does not fit makes push fail, is never
\* finished, and what finish() hands over is always a whole unit.
C26_UnitWithinCapacity ==
    /\ Len(reader.buf) <= InputBufCap
    /\ dep.pc # "idle" =>
          /\ ~UnitFits(dep.unit) => dep.pc \notin {"finish", "done"}
          /\ (~UnitFits(dep.unit) /\ dep.last \in {"end", "single"}) => dep.res = "Error"
          /\ dep.pc = "done" =>
                (dep.n <= InputBufCap /\ dep.out = NALU_DELIMITER \o dep.unit)

C26_Witness ==
    /\ dep.pc = "error"
    /\ ~UnitFits(dep.unit)
    /\ dep.last = "end"
    /\ Len(reader.buf) = InputBufCap

(* --------------------------- the feeder in order ----------------------- *)

RECURSIVE Tags(_)
\* the payload bytes of the queued units, in the order they were queued
Tags(q) ==
    IF q = <<>> THEN <<>>
    ELSE SubSeq(Head(q), Len(NALU_DELIMITER) + 2, Len(Head(q))) \o Tags(Tail(q))

RECURSIVE Embeds(_, _)
\* the tags t are those of some of the packets d, in the order of d
Embeds(t, d) ==
    IF t = <<>> THEN TRUE
    ELSE IF d = <<>> THEN FALSE
    ELSE IF Head(t) = seq_tag(Head(d)) THEN Embeds(Tail(t), Tail(d))
    ELSE Embeds(t, Tail(d))

\* C27: the payloads reach the depacketizer in strictly increasing sequence
\* order, the queued units hold payloads in the order recv() delivered them,
\* and no payload, hence no finished unit, is queued twice.
C27_FifoSubmission ==
    dep.pc = "fifo" =>
        /\ dep.pushed = rob.delivered
        /\ \A i, j \in DOMAIN dep.pushed :
              i < j => seq_diff(dep.pushed[j], dep.pushed[i]) > 0
        /\ Embeds(Tags(queued), rob.delivered)
        /\ \A i, j \in DOMAIN Tags(queued) :
              i # j => Tags(queued)[i] # Tags(queued)[j]
        /\ \A i \in DOMAIN queued : Len(queued[i]) > Len(NALU_DELIMITER) + 1

C27_Witness ==
    /\ rob.arrived = <<65534, 0, 65535>>
    /\ rob.delivered = <<65534, 65535, 0>>
    /\ Len(queued) = 2
    /\ Tags(queued) = <<254, 255, 0>>

(* ------------------------- the decoder session ------------------------- *)

FeederRunning == fpc \in {"start", "loop", "recv", "dequeue"}

\* C28: at most one decoder session is created per pipeline and the steady
\* state works on exactly one; handling SurfaceCreated or SurfaceDestroyed
\* neither creates nor deletes a session; a session that went into steady
\* state is deleted only once the coordinator has returned and the feeder has
\* ended; and no more than the coordinator and one feeder hold it.
C28_SessionLifetime ==
    /\ codec.made <= 1
    /\ codec.deleted <= codec.made
    /\ codec.refs <= 2
    /\ (codec.deleted = 1) <=> (codec.made = 1 /\ codec.refs = 0)
    /\ cpc = "pump" => (codec.made = 1 /\ codec.deleted = 0)
    /\ FeederRunning => (codec.made = 1 /\ codec.deleted = 0)
    /\ (cpc = "pump" /\ pev.op \in {"surface_created", "surface_destroyed"}) =>
          (codec.made = 1 /\ codec.deleted = 0 /\ codec.refs >= 1)
    /\ (boot.result = "Ok" /\ codec.deleted = 1) =>
          (cpc = "returned" /\ ~FeederRunning)

C28_Witness ==
    /\ boot.result = "Ok"
    /\ cpc = "returned"
    /\ pev.op = "surface_failed"
    /\ fpc = "recv"
    /\ codec.refs = 1
    /\ codec.deleted = 0

(* ----------------------------- benign errors --------------------------- *)

\* C29: when recv() returns PacketTooShort the feeder leaves the gate, the
\* depacketizer with what it has accumulated and the limiter as they are,
\* sends no PLI and goes on with its loop; the step of create_media_engine
\* that meets PacketTooShort likewise leaves its limiter, what it has read of
\* the stream and its window as they are, sends nothing and goes on.
C29_PacketTooShortBenign ==
    [][/\ (fpc = "recv" /\ fpc' # "recv" /\ ev'.recv = "PacketTooShort") =>
             /\ has_reference_frame' = has_reference_frame
             /\ reader' = reader
             /\ pli' = pli
             /\ written' = written
             /\ ev'.sends = 0
             /\ fpc' = "loop"
       /\ (boot.pc = "recv" /\ bev'.op = "benign") =>
             /\ boot'.pli = boot.pli
             /\ boot'.decoder = boot.decoder
             /\ boot'.native_window = boot.native_window
             /\ written' = written
             /\ bev'.sends = 0
             /\ boot'.pc = "loop"]_vars

C29_Witness ==
    /\ ev.arm = "benign"
    /\ ev.recv = "PacketTooShort"
    /\ ev.hadRef /\ has_reference_frame
    /\ reader.open /\ reader.buf # <<>>
    /\ fpc = "loop"

(* --------------------------- lifecycle events -------------------------- *)

\* the events received and those not yet received are the events published,
\* in the order they were published
EventsInOrder ==
    /\ seen + Len(events) = published
    /\ \A i \in DOMAIN events : events[i].n = seen + i

\* MainActivityDestroyed has been published: the singleton is being destroyed
DestroyPublished == boot.consumed \/ why = "destroyed" \/ HasDestroyed(events)

\* C30: every lifecycle event published while the singleton is alive is
\* consumed, exactly once and in publish order, by the bootstrap or by the
\* render pump.  Once start_decoder has returned no one receives, so by then
\* every event published before the application is destroyed must have been
\* received.
C30_EveryEventConsumed ==
    /\ EventsInOrder
    /\ (~receiver_alive /\ ~DestroyPublished) => events = <<>>

\* call i of start_decoder is in its initial wait for Connected
Waiting(i) == call.pc = "calls" /\ call.task[i].pc = "wait"

\* C31: a start_decoder that is in its initial wait when the peer connection
\* is closed for good, or when the application-destroyed event has been
\* published, eventually leaves the wait (to return its terminal error).
C31_WaitEnds ==
    \A i \in Calls :
        (Waiting(i) /\ (peer_state = "Closed" \/ HasDestroyed(events)))
            ~> ~Waiting(i)

\* the calls that hold the receiver or have held it
PastAcquisition(i) == call.task[i].pc \in {"engine", "bootstrap", "panicked"}

\* C37: the receiver is handed out at most once per singleton.  It is
\* available exactly as long as no call was given it; a call gets past the
\* acquisition only if it is the one call that was given the receiver; a call
\* that finds the receiver gone returns FailedToGetReceiver and no decoder is
\* created for it; and a call that returns UnknownMimeType or NoDecoderFound
\* leaves the receiver as it found it.
C37_ReceiverOnce ==
    call.pc = "calls" =>
        /\ Len(call.given) <= 1
        /\ call.receiver = (call.given = <<>>)
        /\ \A i \in Calls : PastAcquisition(i) => call.given = <<i>>
        /\ call.made <= Len(call.given)
        /\ (call.last.op = "receiver" /\ ~call.last.had) =>
               /\ call.task[call.last.i].pc = "returned"
               /\ call.task[call.last.i].err = "FailedToGetReceiver"
        /\ \A i \in Calls :
               call.task[i].err = "FailedToGetReceiver" => ~PastAcquisition(i)
        /\ call.last.op \in {"mime", "name"} => call.receiver = call.last.had

\* one call went on into create_media_engine with the receiver and a later
\* one has just been refused
C37_Witness ==
    /\ call.pc = "calls"
    /\ \E i, j \in Calls :
           /\ call.task[i].pc = "bootstrap"
           /\ call.task[j].err = "FailedToGetReceiver"
           /\ call.last = [op |-> "receiver", i |-> j, had |-> FALSE]
    /\ call.made = 1

\* the pipeline is in steady state: the render pump is in its loop
Steady == cpc \in {"pump", "release"}

\* C32: every lifecycle event published while the pipeline is in steady state
\* is eventually received by the render pump (or the pump has left its loop
\* by then), also when the decoder produces no output.
C32_EventsReceived ==
    \A n \in 1..MaxEvents :
        (Steady /\ published >= n) ~> (seen >= n \/ ~Steady)

\* C33: once the feeder task has ended with an error, the render pump
\* eventually stops and start_decoder returns a terminal error.
C33_FeederErrorEndsPipeline ==
    (fpc = "failed") ~> (cpc = "returned" /\ result # "none")

\* SurfaceDestroyed has been published and is still in the channel
DestroyedPending(evs) == \E i \in DOMAIN evs : evs[i].type = "SurfaceDestroyed"

\* C34: when create_media_engine initializes the decoder session against its
\* native window, no SurfaceDestroyed has been published since the
\* SurfaceCreated that window came with.
C34_WindowAliveAtInitialize ==
    (bev.op = "build" /\ \E k \in DOMAIN boot.session : boot.session[k] = "initialize")
        => ~DestroyedPending(events)

\* C35: in steady state no output buffer is released with render = true
\* while a SurfaceDestroyed is published and no later SurfaceCreated has been
\* applied (an event still in the channel has been published and every
\* event behind it is unapplied).
C35_NoRenderAfterDestroy ==
    (pev.op = "release" /\ pev.releases = 1 /\ pev.render)
        => ~DestroyedPending(events)

\* the input buffers that were dequeued and neither queued nor dropped with a
\* failed queue_input_buffer: those the feeder holds
HeldBuffers == NumIn - codec.inFree - codec.inQueued - codec.inLost

\* C36: the feeder holds exactly one input buffer at the start of and all
\* through an iteration; queue_input_buffer is called with that buffer and
\* the feeder holds none afterwards, whether the call succeeded or failed; an
\* iteration that discards a unit, needs more input or hits an error takes no
\* buffer from the codec; and the dequeue after a queue attempt takes one.
C36_InputBufferOwnership ==
    /\ [](fpc \in {"loop", "recv"} => HeldBuffers = 1)
    /\ [](fpc = "dequeue" => HeldBuffers = 0)
    /\ [][(fpc = "recv" /\ fpc' = "dequeue") =>
             /\ HeldBuffers = 1
             /\ codec'.inFree = codec.inFree
             /\ codec'.inQueued + codec'.inLost = codec.inQueued + codec.inLost + 1]_vars
    /\ [][(fpc = "recv" /\ fpc' \in {"loop", "failed"}) =>
             /\ codec'.inFree = codec.inFree
             /\ codec'.inQueued + codec'.inLost = codec.inQueued + codec.inLost]_vars
    /\ [][(fpc = "dequeue" /\ fpc' = "loop") =>
             codec'.inFree = codec.inFree - 1]_vars

\* a queue_input_buffer has failed, and the feeder is back at the top of its
\* loop with the buffer it dequeued afterwards
C36_Witness ==
    /\ codec.inLost = 1
    /\ fpc = "loop"
    /\ ev.arm = "dequeue" /\ ev.dqok
    /\ HeldBuffers = 1

\* C38: nothing is dropped silently at the hand-off from the bootstrap to the
\* feeder: the bootstrap's reorder buffer holds no packet that it has read
\* and not delivered when it is given up, and the feeder's reorder buffer
\* goes on from the sequence number the bootstrap's buffer expected next.
C38_HandoffKeepsPackets ==
    rev.op = "handoff" => (rob.lost = {} /\ rob.expected = rob.left)

\* C39: after any sequence of read_payload calls, init_done is true exactly
\* when a sequence parameter set with a parsable resolution and a picture
\* parameter set have both been read, in either order; codec_config is then
\* 00 00 00 01, the last such SPS, 00 00 00 01, the last PPS; and a call that
\* returns Err on a NAL unit of another type keeps the parameter sets read so
\* far, those read earlier in the same payload included.
C39_ConfigAssembly ==
    call.pc = "h264" =>
        /\ init_done(call.decoder) <=> (call.sps # None /\ call.pps # None)
        /\ init_done(call.decoder) =>
               call.decoder.codec_config =
                   Some(NALU_DELIMITER \o call.sps[1] \o NALU_DELIMITER \o call.pps[1])
        /\ call.decoder.sps = call.sps
        /\ call.decoder.pps = call.pps
        /\ call.reads > 0 =>
               (call.ok <=> (call.nals # <<>> /\ Reached(call.nals) = call.nals))

\* the configuration is complete with the second SPS and the second PPS,
\* and the last call took in a parameter set before it returned Err on an IDR
C39_Witness ==
    /\ call.pc = "h264"
    /\ init_done(call.decoder)
    /\ call.sps = Some(SPS_OK2) /\ call.pps = Some(PPS2)
    /\ ~call.ok
    /\ call.nals = <<PPS2, IDR>>

\* the greatest common divisor as Euclid computes it
RECURSIVE Euclid(_, _)
Euclid(a, b) == IF b = 0 THEN a ELSE Euclid(b, a % b)

Larger(a, b) == IF a >= b THEN a ELSE b

\* C40: for a width and a height that are not negative and not both zero,
\* gcd returns their greatest common divisor (the other operand when one is
\* zero), every round of its loop leaves the operands positive and makes
\* the larger of them smaller, so that it terminates, and what is passed to
\* setMediaPlayerAspectRatio is width : height in lowest terms.
C40_GcdLowestTerms ==
    /\ [](call.pc \in {"returned", "passed"} /\ <<call.width, call.height>> # <<0, 0>>
            => /\ call.divisor = Euclid(call.width, call.height)
               /\ call.divisor > 0)
    /\ [](call.pc = "passed" =>
             /\ call.passed[1] * call.divisor = call.width
             /\ call.passed[2] * call.divisor = call.height
             /\ Euclid(call.passed[1], call.passed[2]) = 1)
    /\ [](call.pc = "loop" => (call.u > 0 /\ call.v > 0))
    /\ [][(call.pc = "loop" /\ call'.pc = "loop") =>
             Larger(call'.u, call'.v) < Larger(call.u, call.v)]_vars

\* 1920 x 1080 has been passed as 16 : 9 after the loop of gcd ran
C40_Witness ==
    /\ call.pc = "passed"
    /\ call.width = 1920 /\ call.height = 1080
    /\ call.rounds > 1
    /\ call.passed = <<16, 9>>
============================================================================
